---- MODULE Spec2Model ----
(***************************************************************************)
(* Fastssh: the provisioning protocol (init), the connector (connect),     *)
(* remove, and the hybrid credential store (config file + OS keychain).    *)
(*                                                                         *)
(* pc is the position of the running command between two awaits; "idle"   *)
(* is the shell prompt between two invocations and "exit" is the process   *)
(* having ended with exitCode.                                             *)
(*                                                                         *)
(* Spec is the CLI (init, remove, connect), one invocation at a time.      *)
(* SpecStore and SpecStoreFile call the functions of config/store.js       *)
(* directly, on a first run and on any config file.  SpecClassifier        *)
(* applies handleConnectionError to an error message and an authType.      *)
(* SpecSave runs saveConfig step by step with a process that can be        *)
(* stopped, SpecRetry runs retryWithBackoff (SpecRetryFair: with every     *)
(* call and timer completing), SpecPort applies the port checks to a text, *)
(* SpecRemove runs remove once on any store, and SpecConcurrent runs two   *)
(* invocations at once on one store.                                       *)
(***************************************************************************)
EXTENDS Integers, Sequences, FiniteSets, TLC

(***************************************************************************)
(* Bounds of the model.                                                    *)
(***************************************************************************)
\* most copies of the public-key line the remote files are followed up to
MaxKeyLines == 2
\* most words of an error message handed to handleConnectionError
MaxWords == 2
\* largest maxRetries retryWithBackoff is called with
MaxRetries == 3
\* most characters of a port typed at the prompt or handed to validatePort
MaxPortLen == 5

(***************************************************************************)
(* Input alphabets.  Strings that the code inspects are sequences of       *)
(* characters, so that the validators can be computed on them.             *)
(***************************************************************************)
Aliases == {"web1", "db1"}
H1 == <<"h", "1">>
HEmpty == <<>>
Hosts == {H1, HEmpty}
U1 == <<"u", "1">>
U2 == <<"u", "2">>
USpace == <<"u", " ", "3">>
Users == {U1, U2, USpace}
PortInputs == {0, 22, 2222, 65536}
Passwords == {"pw1", "pw2"}
Passphrases == {"pp1", "pp2"}
\* a name every JS object inherits from Object.prototype
ObjectPrototypeKeys == {"toString"}
\* the aliases the store API is called with
StoreAliases == {"web1"} \cup ObjectPrototypeKeys

DefaultPort == 22
MinPort == 1
MaxPort == 65535
UserMaxLen == 32
\* a field that is absent from a JS object (undefined)
NoPort == -1
NoKeyPath == "undefined"
CanonicalKeyPath == "~/.ssh/id_rsa"
NoPassword == "none"
NoAlias == "none"

\* outcome of one ssh.execCommand: an exit code, a null code (the remote
\* process was ended by a signal) or a rejected promise
ExecOutcomes == {"0", "1", "null", "throw"}

Accounts == Hosts \X Users

VARIABLES
    cfg,            \* ~/.fastssh/config.json: alias -> record (partial function)
    keychain,       \* keytar service "fastssh": alias -> passphrase (account "<alias>:passphrase")
    keyFiles,       \* ~/.ssh/id_rsa and id_rsa.pub: "none", "priv" (no .pub) or "pair"
    authorizedKeys, \* remote ~/.ssh/authorized_keys: account -> copies of the line of
                    \* the public key that is in ~/.ssh/id_rsa.pub now
    pc,             \* position of the running command
    cmd,            \* the running command: "init", "remove", "connect"
    name,           \* the alias argument of the running command
    basicInfo,      \* answers of the host/user/port prompt
    serverCfg,      \* the record getServer returned to connect / remove
    password,       \* authDetails.password / the remove password
    ssh,            \* the password session: "none", "open", "disposed"
    sshKey,         \* the key-authenticated session: "none", "open", "disposed"
    mkdirResult,    \* outcome of "mkdir -p ~/.ssh && chmod 700 ~/.ssh"
    result1,        \* outcome of Method 1: "none", "ok", "fail", "threw"
    result2,        \* outcome of Method 2
    diag,           \* the methods whose stderr the installer printed on failure
    exitCode,       \* process exit status, -1 while running
    report,         \* what the command printed last as its outcome
    connections,    \* history: the ssh.connect calls of this run
    cfg0,           \* history: cfg when the command started
    keychain0,      \* history: keychain when the command started
    keyFiles0,      \* history: keyFiles when the command started
    verified,       \* history: alias -> target that init's key login verified
    file,           \* ~/.fastssh/config.json itself: "absent", "valid" (parses) or "corrupt"
    dirMode,        \* mode of the remote ~/.ssh as the installer left it, "unknown" outside it
    fileMode,       \* mode of the remote authorized_keys as the installer left it
    chmodResult,    \* outcome of "chmod 600 ~/.ssh/authorized_keys"
    op,             \* store API: the last call, [fn, name, obj]
    ret,            \* store API: what the last call returned or threw
    errMessage,       \* handleConnectionError: err.message, a sequence of words
    errAuthType,    \* handleConnectionError: its authType argument
    category,       \* handleConnectionError: the branch taken, "none" before the call
    guidance,       \* handleConnectionError: whether the key remediation was printed
    dirExists,      \* whether the directory ~/.fastssh exists
    backup,         \* ~/.fastssh/config.json.bak: [exists, map]
    data,           \* saveConfig: its argument, the mapping to write
    options,        \* retryWithBackoff: its options argument, [given, maxRetries, initialDelay]
    iter,           \* retryWithBackoff: the loop counter i
    lastError,      \* retryWithBackoff: the error of the last rejected call of fn
    calls,          \* history: the calls of fn so far and how each one settled
    waits,          \* history: the delays handed to setTimeout so far
    returned,       \* retryWithBackoff: [kind, val], what it returned or threw
    portText,       \* the port as typed, a sequence of characters
    valid,          \* validatePort(portText).valid, "none" before the call
    accepted,       \* whether the validate function of the port prompt returned true
    procs           \* concurrent invocations: process -> its position and memory

disk == <<file, dirExists, backup>>
persist == <<cfg, keychain, keyFiles, authorizedKeys, verified, disk>>
remote == <<dirMode, fileMode, chmodResult>>
runv == <<name, basicInfo, serverCfg, password, ssh, sshKey, mkdirResult, result1, result2, diag,
          remote>>
api == <<op, ret>>
cls == <<errMessage, errAuthType, category, guidance>>
rtr == <<options, iter, lastError, calls, waits, returned>>
prt == <<portText, valid, accepted>>
utl == <<data, rtr, prt, procs>>
lib == <<api, cls, utl>>
snap == <<cfg0, keychain0, keyFiles0>>
ctl == <<pc, cmd, exitCode, report>>
vars == <<cfg, keychain, keyFiles, authorizedKeys, verified, name, basicInfo,
          serverCfg, password, ssh, sshKey, mkdirResult, result1, result2, diag, connections,
          cfg0, keychain0, keyFiles0, pc, cmd, exitCode, report, file, dirMode, fileMode,
          chmodResult, op, ret, errMessage, errAuthType, category, guidance, dirExists, backup,
          data, options, iter, lastError, calls, waits, returned, portText, valid,
          accepted, procs>>

NoInfo == [host |-> HEmpty, user |-> <<>>, port |-> 0]
EmptyMap == [a \in {} |-> 0]
NoServerCfg == [host |-> HEmpty, user |-> <<>>, authType |-> "none",
                keyPath |-> NoKeyPath, port |-> NoPort, passphrase |-> NoPassword]

(***************************************************************************)
(* Validators (utils/edge-cases.js) and the init port prompt validator.    *)
(***************************************************************************)
HostChars == {"h", "1", "."}

validateHostname(h) ==
    /\ Len(h) > 0
    /\ h[1] # " " /\ h[Len(h)] # " "
    /\ \A i \in 1..Len(h) : h[i] \in HostChars

validateUsername(u) ==
    /\ Len(u) > 0
    /\ ~ \E i \in 1..Len(u) : u[i] = " "
    /\ Len(u) <= UserMaxLen

\* mutant of validatePort: the lower limit is excluded
validatePort_Exclusive(p) == ~ (p <= MinPort \/ p > MaxPort)

validatePort(p) == ~ (p < MinPort \/ p > MaxPort)

PromptPortValid(p) == ~ (p < 1 \/ p > 65535)

(***************************************************************************)
(* Config Store (config/store.js).                                         *)
(***************************************************************************)
\* mutant of loadConfig: a file that does not parse is read as an empty store
loadConfig_Lenient(f, c) ==
    IF f = "valid" THEN [err |-> "none", map |-> c]
    ELSE [err |-> "none", map |-> EmptyMap]

\* loadConfig: {} when the file does not exist, else JSON.parse of its text,
\* which throws a SyntaxError on a text that is not JSON
loadConfig(f, c) ==
    IF f = "absent" THEN [err |-> "none", map |-> EmptyMap]
    ELSE IF f = "corrupt" THEN [err |-> "SyntaxError", map |-> EmptyMap]
    ELSE [err |-> "none", map |-> c]

\* Boolean(loadConfig()[name]): an entry of the file, or for a name of
\* Object.prototype the member the parsed object inherits (a function)
hasServer(c, n) == n \in DOMAIN c \/ n \in ObjectPrototypeKeys

\* mutant of findServerByHostUser: the user is compared with the host
findServerByHostUser_Typo(c, host, user) ==
    LET hits == {n \in DOMAIN c : c[n].host = host /\ c[n].user = host}
    IN IF hits = {} THEN NoAlias ELSE CHOOSE n \in hits : TRUE

findServerByHostUser(c, host, user) ==
    LET hits == {n \in DOMAIN c : c[n].host = host /\ c[n].user = user}
    IN IF hits = {} THEN NoAlias ELSE CHOOSE n \in hits : TRUE

\* mutant of StoredRecord: the passphrase is written into the entry
StoredRecord_Inline(obj) ==
    [host |-> obj.host, user |-> obj.user, authType |-> "key",
     keyPath |-> IF obj.keyPath # "" /\ obj.keyPath # NoKeyPath
                 THEN obj.keyPath ELSE NoKeyPath,
     port |-> NoPort, passphrase |-> obj.passphrase]

\* cfg[name] = {host, user, authType: "key"} plus keyPath when truthy
StoredRecord(obj) ==
    [host |-> obj.host, user |-> obj.user, authType |-> "key",
     keyPath |-> IF obj.keyPath # "" /\ obj.keyPath # NoKeyPath
                 THEN obj.keyPath ELSE NoKeyPath,
     port |-> NoPort, passphrase |-> NoPassword]

\* mutant of addServerCfg: the entry is put into a new object, not the loaded one
addServerCfg_Fresh(c, n, obj) == [a \in {n} |-> StoredRecord(obj)]

addServerCfg(c, n, obj) ==
    [a \in DOMAIN c \cup {n} |-> IF a = n THEN StoredRecord(obj) ELSE c[a]]

addServerKeychain(k, n, obj) ==
    IF obj.passphrase # NoPassword /\ obj.passphrase # ""
    THEN [a \in DOMAIN k \cup {n} |-> IF a = n THEN obj.passphrase ELSE k[a]]
    ELSE k

removeServerCfg(c, n) == [a \in DOMAIN c \ {n} |-> c[a]]

removeServerKeychain(k, n) == [a \in DOMAIN k \ {n} |-> k[a]]

\* mutant of getServer: a passphrase held by the entry itself is kept
getServer_DiskFirst(c, k, n) ==
    IF n \notin DOMAIN c
    THEN NoServerCfg
    ELSE [host |-> c[n].host, user |-> c[n].user, authType |-> c[n].authType,
          keyPath |-> c[n].keyPath, port |-> c[n].port,
          passphrase |-> IF c[n].passphrase # NoPassword THEN c[n].passphrase
                         ELSE IF c[n].authType = "key" /\ n \in DOMAIN k THEN k[n]
                         ELSE NoPassword]

\* getServer past its `if (!cfg) return undefined`: the spread of the entry,
\* with passphrase overwritten by the keychain value (null when there is
\* none) when authType is "key".  The spread of an inherited function is {}.
getServer(c, k, n) ==
    IF n \notin DOMAIN c
    THEN NoServerCfg
    ELSE [host |-> c[n].host, user |-> c[n].user, authType |-> c[n].authType,
          keyPath |-> c[n].keyPath, port |-> c[n].port,
          passphrase |-> IF c[n].authType = "key"
                         THEN IF n \in DOMAIN k THEN k[n] ELSE NoPassword
                         ELSE c[n].passphrase]

listServers(c) == DOMAIN c

\* port: x || 22
PortOrDefault(p) == IF p = NoPort \/ p = 0 THEN DefaultPort ELSE p

(***************************************************************************)
(* Initial state: a fresh ~/.fastssh, any state of the local key files,    *)
(* any content of the OS keychain under the service name.                  *)
(***************************************************************************)
\* no store API call made yet
NoOp == [fn |-> "none", name |-> NoAlias, obj |-> NoServerCfg]
NoRet == [kind |-> "none", err |-> "none", rec |-> NoServerCfg, map |-> EmptyMap]

\* handleConnectionError not called
NoCall ==
    /\ errMessage = <<>>
    /\ errAuthType = "undefined"
    /\ category = "none"
    /\ guidance = FALSE

\* no backup file next to the config file
NoBackup == [exists |-> FALSE, map |-> EmptyMap]

\* a JS value as far as its fields success, error and value go
NoValue == [success |-> "undefined", error |-> "undefined", value |-> "undefined"]

\* retryWithBackoff called with one argument
NoOptions == [given |-> FALSE, maxRetries |-> 0, initialDelay |-> 0]

\* retryWithBackoff has not returned
NoReturn == [kind |-> "none", val |-> NoValue]

\* the locals of retryWithBackoff before its loop
RetryStart ==
    /\ iter = 0
    /\ lastError = "undefined"
    /\ calls = <<>>
    /\ waits = <<>>
    /\ returned = NoReturn

\* retryWithBackoff not called
NoRetry ==
    /\ options = NoOptions
    /\ RetryStart

\* no port validated
NoPortCheck ==
    /\ portText = <<>>
    /\ valid = "none"
    /\ accepted = "none"

\* two CLI invocations (OS processes) on one ~/.fastssh
Procs == {1, 2}

\* no invocation of the concurrent pair has started: its position, its
\* arguments and answers, the store function it is in (call), the object that
\* function loaded and changed, whether ~/.fastssh existed when saveConfig
\* looked, and history: overlaid (the other wrote the file after this one
\* opened it), fresh (its load came after the other had finished), stamp
\* (the order of the writes) and outcome
NoProcs ==
    [p \in Procs |->
        [pc |-> "idle", cmd |-> "none", name |-> NoAlias, host |-> HEmpty, user |-> <<>>,
         call |-> "none", loaded |-> EmptyMap, sawDir |-> FALSE, overlaid |-> FALSE,
         fresh |-> FALSE, stamp |-> 0, outcome |-> "none"]]

\* saveConfig, retryWithBackoff and the port validators not called
NoUtil ==
    /\ data = EmptyMap
    /\ NoRetry
    /\ NoPortCheck
    /\ procs = NoProcs

\* the memory of a process whose command has done nothing yet
FreshRun ==
    /\ name = NoAlias
    /\ basicInfo = NoInfo
    /\ serverCfg = NoServerCfg
    /\ password = NoPassword
    /\ ssh = "none"
    /\ sshKey = "none"
    /\ mkdirResult = "none"
    /\ result1 = "none"
    /\ result2 = "none"
    /\ diag = {}
    /\ exitCode = -1
    /\ report = "none"
    /\ connections = {}
    /\ cfg0 = EmptyMap
    /\ keychain0 = EmptyMap
    /\ keyFiles0 = "none"
    /\ dirMode = "unknown"
    /\ fileMode = "unknown"
    /\ chmodResult = "none"

\* a process that has not started a command
NoCommand ==
    /\ pc = "idle"
    /\ cmd = "none"
    /\ FreshRun

Init ==
    /\ cfg = EmptyMap
    /\ file = "absent"
    /\ dirExists = FALSE
    /\ backup = NoBackup
    /\ NoUtil
    /\ \E S \in SUBSET Aliases : keychain = [a \in S |-> "pp1"]
    /\ keyFiles \in {"none", "priv", "pair"}
    /\ authorizedKeys = [acc \in Accounts |-> 0]
    /\ verified = EmptyMap
    /\ NoCommand
    /\ op = NoOp
    /\ ret = NoRet
    /\ NoCall

Exit(code, rep) ==
    /\ pc' = "exit"
    /\ UNCHANGED cmd
    /\ exitCode' = code
    /\ report' = rep

Goto(p) ==
    /\ pc' = p
    /\ UNCHANGED <<cmd, exitCode, report>>

Begin(c, n) ==
    /\ pc = "idle"
    /\ cmd' = c
    /\ name' = n
    /\ cfg0' = cfg
    /\ keychain0' = keychain
    /\ keyFiles0' = keyFiles
    /\ UNCHANGED <<remote, lib>>

\* removeServer(n): load, delete, save, then the best-effort keychain delete.
\* A save that throws leaves the file as it was and is not caught.
removeServerDo(n, delOk) ==
    /\ cfg' = removeServerCfg(cfg, n)
    /\ file' = "valid"
    /\ dirExists' = TRUE
    /\ UNCHANGED backup
    /\ keychain' = IF delOk THEN removeServerKeychain(keychain, n) ELSE keychain
    /\ verified' = [a \in DOMAIN verified \ {n} |-> verified[a]]

Account == <<basicInfo.host, basicInfo.user>>

AppendKeyLine(acc) == authorizedKeys' = [authorizedKeys EXCEPT ![acc] = @ + 1]

(***************************************************************************)
(* init (commands/init.js).                                                *)
(***************************************************************************)
InitStart(n) ==
    /\ Begin("init", n)
    /\ IF hasServer(cfg, n) THEN pc' = "i_confirm" ELSE pc' = "i_prompt"
    /\ UNCHANGED <<exitCode, report>>
    /\ UNCHANGED <<persist, basicInfo, serverCfg, password, ssh, sshKey, mkdirResult,
                   result1, result2, diag, connections>>

\* mutant of InitConfirm: the record is removed before the answer is looked at
InitConfirm_RemoveFirst ==
    /\ pc = "i_confirm"
    /\ \E replace \in BOOLEAN, delOk \in BOOLEAN :
         /\ removeServerDo(name, delOk)
         /\ IF replace THEN Goto("i_prompt") ELSE Exit(0, "canceled")
    /\ UNCHANGED <<keyFiles, authorizedKeys, runv, snap, lib, connections>>

InitConfirm ==
    /\ pc = "i_confirm"
    /\ \E replace \in BOOLEAN, saveOk \in BOOLEAN, delOk \in BOOLEAN :
         IF ~ replace
         THEN /\ Exit(0, "canceled")
              /\ UNCHANGED persist
         ELSE IF ~ saveOk
         THEN /\ Exit(1, "crash")
              /\ UNCHANGED persist
         ELSE /\ removeServerDo(name, delOk)
              /\ Goto("i_prompt")
              /\ UNCHANGED <<keyFiles, authorizedKeys>>
    /\ UNCHANGED <<runv, snap, lib, connections>>

RECURSIVE SumOver(_, _)
SumOver(f, S) ==
    IF S = {} THEN 0
    ELSE LET x == CHOOSE y \in S : TRUE IN f[x] + SumOver(f, S \ {x})

\* copies of the key line over all remote accounts
KeyLines == SumOver(authorizedKeys, Accounts)

\* the host / user / port prompt; a port the validator rejects is asked again
InitPrompt ==
    /\ pc = "i_prompt"
    /\ \E h \in Hosts, u \in Users, p \in PortInputs :
         /\ IF PromptPortValid(p)
            THEN /\ basicInfo' = [host |-> h, user |-> u, port |-> p]
                 /\ Goto("i_key")
            ELSE /\ UNCHANGED basicInfo
                 /\ Goto("i_prompt")
    /\ UNCHANGED <<persist, snap, lib, connections, name, serverCfg, password, ssh, sshKey,
                   mkdirResult, result1, result2, diag, remote>>

\* mutant of InitEnsureKey: a key pair is generated whether or not a private
\* key exists
InitEnsureKey_Regenerate ==
    /\ pc = "i_key"
    /\ \E genOk \in BOOLEAN :
         IF genOk
         THEN /\ keyFiles' = "pair"
              /\ authorizedKeys' = [acc \in Accounts |-> 0]
              /\ Goto("i_conflict")
         ELSE /\ UNCHANGED <<keyFiles, authorizedKeys>>
              /\ Exit(1, "keygen")
    /\ UNCHANGED <<cfg, keychain, verified, disk, runv, snap, lib, connections>>

\* existsSync(~/.ssh/id_rsa), else generateSSHKey.  No remote file holds the
\* line of a key that has just been generated.
InitEnsureKey ==
    /\ pc = "i_key"
    /\ IF keyFiles # "none"
       THEN /\ Goto("i_conflict")
            /\ UNCHANGED <<keyFiles, authorizedKeys>>
       ELSE \E genOk \in BOOLEAN :
              IF genOk
              THEN /\ keyFiles' = "pair"
                   /\ authorizedKeys' = [acc \in Accounts |-> 0]
                   /\ Goto("i_conflict")
              ELSE /\ UNCHANGED <<keyFiles, authorizedKeys>>
                   /\ Exit(1, "keygen")
    /\ UNCHANGED <<cfg, keychain, verified, disk, runv, snap, lib, connections>>

InitCheckConflict ==
    /\ pc = "i_conflict"
    /\ IF findServerByHostUser(cfg, basicInfo.host, basicInfo.user) # NoAlias
       THEN Exit(1, "conflict")
       ELSE Goto("i_password")
    /\ UNCHANGED <<persist, runv, snap, lib, connections>>

\* the one-time password prompt.  Once the remote accounts hold MaxKeyLines
\* copies of the key line no further password is entered, which bounds the
\* remote files.
InitPassword ==
    /\ pc = "i_password"
    /\ KeyLines < MaxKeyLines
    /\ \E pw \in Passwords : password' = pw
    /\ Goto("i_connect")
    /\ UNCHANGED <<persist, snap, lib, connections, name, basicInfo, serverCfg, ssh, sshKey,
                   mkdirResult, result1, result2, diag, remote>>

\* a connect to an empty host is rejected by the transport
ConnectOutcomes(host) == IF Len(host) = 0 THEN {FALSE} ELSE BOOLEAN

Session(auth, host, user, port, ok) ==
    [auth |-> auth, host |-> host, user |-> user, port |-> port, ok |-> ok]

InitConnect ==
    /\ pc = "i_connect"
    /\ \E ok \in ConnectOutcomes(basicInfo.host) :
         /\ connections' = connections \cup
               {Session("password", basicInfo.host, basicInfo.user,
                        PortOrDefault(basicInfo.port), ok)}
         /\ IF ok
            THEN /\ ssh' = "open"
                 /\ Goto("i_pubkey")
            ELSE /\ UNCHANGED ssh
                 /\ Exit(1, "setup_failed")
    /\ UNCHANGED <<persist, snap, lib, name, basicInfo, serverCfg, password, sshKey,
                   mkdirResult, result1, result2, diag, remote>>

\* getPublicKeyContent: null when the .pub file is missing or unreadable
InitReadPubKey ==
    /\ pc = "i_pubkey"
    /\ \E readOk \in BOOLEAN :
         IF keyFiles = "pair" /\ readOk
         THEN /\ Goto("i_mkdir")
              /\ UNCHANGED ssh
         ELSE /\ ssh' = "disposed"
              /\ Exit(1, "pubkey")
    /\ UNCHANGED <<persist, snap, lib, connections, name, basicInfo, serverCfg, password,
                   sshKey, mkdirResult, result1, result2, diag, remote>>

(***************************************************************************)
(* Remote Installer: addPublicKeyToRemote, one action per execCommand.     *)
(* A command that throws is caught by addPublicKeyToRemote, which returns  *)
(* false; init then disposes the session and exits with status 1.          *)
(***************************************************************************)
\* "Both methods failed" with the stderr of Method 1 and of Method 2
InstallerBothFailed ==
    /\ diag' = {"m1", "m2"}
    /\ ssh' = "disposed"
    /\ Exit(1, "install")

\* the catch block: "Error adding public key to remote: <err.message>"
InstallerThrew ==
    /\ diag' = {"err"}
    /\ ssh' = "disposed"
    /\ Exit(1, "install")

InstallerGoto(p) ==
    /\ Goto(p)
    /\ UNCHANGED <<ssh, diag>>

\* modes the remote directory / file can be left with by a command that failed
DirModes == {"700", "755"}
FileModes == {"600", "644"}

\* mkdir -p ~/.ssh && chmod 700 ~/.ssh; a non-zero code is only logged
InstallMkdir ==
    /\ pc = "i_mkdir"
    /\ \E r \in ExecOutcomes :
         IF r = "throw"
         THEN /\ InstallerThrew
              /\ UNCHANGED <<mkdirResult, dirMode>>
         ELSE /\ mkdirResult' = r
              /\ dirMode' \in (IF r = "1" THEN DirModes ELSE {"700"})
              /\ InstallerGoto("i_m1")
    /\ UNCHANGED <<persist, snap, lib, connections, name, basicInfo, serverCfg, password,
                   sshKey, result1, result2, fileMode, chmodResult>>

\* mutant of tryDirectAppendMethod: a failed Method 1 ends the installer
tryDirectAppendMethod_NoFallback ==
    /\ pc = "i_m1"
    /\ \E r \in ExecOutcomes :
         \/ /\ r \in {"0", "null"}
            /\ AppendKeyLine(Account)
            /\ result1' = "ok"
            /\ InstallerGoto("i_chmod1")
         \/ /\ r = "1"
            /\ UNCHANGED authorizedKeys
            /\ result1' = "fail"
            /\ InstallerBothFailed
         \/ /\ r = "throw"
            /\ UNCHANGED authorizedKeys
            /\ result1' = "threw"
            /\ InstallerThrew
    /\ UNCHANGED <<cfg, keychain, keyFiles, verified, disk, snap, lib, connections, name,
                   basicInfo, serverCfg, password, sshKey, mkdirResult, result2, remote>>

\* tryDirectAppendMethod: echo '<key>' >> ~/.ssh/authorized_keys.
\* code 0 or null counts as success, any other code as failure of the write
tryDirectAppendMethod ==
    /\ pc = "i_m1"
    /\ \E r \in ExecOutcomes :
         \/ /\ r \in {"0", "null"}
            /\ AppendKeyLine(Account)
            /\ result1' = "ok"
            /\ InstallerGoto("i_chmod1")
         \/ /\ r = "1"
            /\ UNCHANGED authorizedKeys
            /\ result1' = "fail"
            /\ InstallerGoto("i_m2")
         \/ /\ r = "throw"
            /\ UNCHANGED authorizedKeys
            /\ result1' = "threw"
            /\ InstallerThrew
    /\ UNCHANGED <<cfg, keychain, keyFiles, verified, disk, snap, lib, connections, name,
                   basicInfo, serverCfg, password, sshKey, mkdirResult, result2, remote>>

\* await ssh.execCommand("chmod 600 ~/.ssh/authorized_keys"): the result is
\* dropped, so the method returns true whatever the exit code
Chmod600 ==
    \E r \in ExecOutcomes :
        IF r = "throw"
        THEN /\ InstallerThrew
             /\ UNCHANGED <<fileMode, chmodResult>>
        ELSE /\ chmodResult' = r
             /\ fileMode' \in (IF r = "1" THEN FileModes ELSE {"600"})
             /\ InstallerGoto("i_check")

\* the chmod after Method 1
InstallChmod1 ==
    /\ pc = "i_chmod1"
    /\ Chmod600
    /\ UNCHANGED <<persist, snap, lib, connections, name, basicInfo, serverCfg, password,
                   sshKey, mkdirResult, result1, result2, dirMode>>

\* tryBase64Method: echo '<base64>' | base64 -d >> ~/.ssh/authorized_keys
tryBase64Method ==
    /\ pc = "i_m2"
    /\ \E r \in ExecOutcomes :
         \/ /\ r \in {"0", "null"}
            /\ AppendKeyLine(Account)
            /\ result2' = "ok"
            /\ InstallerGoto("i_chmod2")
         \/ /\ r = "1"
            /\ UNCHANGED authorizedKeys
            /\ result2' = "fail"
            /\ InstallerBothFailed
         \/ /\ r = "throw"
            /\ UNCHANGED authorizedKeys
            /\ result2' = "threw"
            /\ InstallerThrew
    /\ UNCHANGED <<cfg, keychain, keyFiles, verified, disk, snap, lib, connections, name,
                   basicInfo, serverCfg, password, sshKey, mkdirResult, result1, remote>>

\* the chmod after Method 2
InstallChmod2 ==
    /\ pc = "i_chmod2"
    /\ Chmod600
    /\ UNCHANGED <<persist, snap, lib, connections, name, basicInfo, serverCfg, password,
                   sshKey, mkdirResult, result1, result2, dirMode>>

\* the locals of addPublicKeyToRemote and of its two methods are gone once it
\* has returned, and the remote account is not looked at again
InstallerReturned ==
    /\ mkdirResult' = "none"
    /\ result1' = "none"
    /\ result2' = "none"
    /\ dirMode' = "unknown"
    /\ fileMode' = "unknown"
    /\ chmodResult' = "none"

\* mutant of InitCheckConfig: the password session is left open
InitCheckConfig_NoDispose ==
    /\ pc = "i_check"
    /\ \E r \in ExecOutcomes :
         IF r = "throw"
         THEN Exit(1, "setup_failed")
         ELSE Goto("i_verify")
    /\ InstallerReturned
    /\ UNCHANGED <<persist, snap, lib, connections, name, basicInfo, serverCfg, password,
                   ssh, sshKey, diag>>

\* checkServerSSHConfig, then ssh.dispose(); the returned flag is not used,
\* a thrown error goes to init's catch
InitCheckConfig ==
    /\ pc = "i_check"
    /\ \E r \in ExecOutcomes :
         IF r = "throw"
         THEN /\ Exit(1, "setup_failed")
              /\ UNCHANGED ssh
         ELSE /\ ssh' = "disposed"
              /\ Goto("i_verify")
    /\ InstallerReturned
    /\ UNCHANGED <<persist, snap, lib, connections, name, basicInfo, serverCfg, password,
                   sshKey, diag>>

InitRecord ==
    [host |-> basicInfo.host, user |-> basicInfo.user,
     port |-> PortOrDefault(basicInfo.port), authType |-> "key",
     keyPath |-> CanonicalKeyPath, passphrase |-> NoPassword]

\* mutant of addServerDo: the password of the run is saved in the keychain
addServerDo_SavePassword(n, obj) ==
    /\ cfg' = addServerCfg(cfg, n, obj)
    /\ file' = "valid"
    /\ dirExists' = TRUE
    /\ UNCHANGED backup
    /\ keychain' = [a \in DOMAIN keychain \cup {n} |->
                      IF a = n THEN password ELSE keychain[a]]

\* addServer(n, obj): keychain write (if a passphrase is supplied), then save
addServerDo(n, obj) ==
    /\ cfg' = addServerCfg(cfg, n, obj)
    /\ file' = "valid"
    /\ dirExists' = TRUE
    /\ UNCHANGED backup
    /\ keychain' = addServerKeychain(keychain, n, obj)

\* the key login is accepted only by a server that holds the key line
KeyLoginOutcomes(acc) ==
    IF Len(acc[1]) > 0 /\ authorizedKeys[acc] > 0 THEN BOOLEAN ELSE {FALSE}

\* mutants of testSSHKeyAuthentication: the record is written before the key
\* login is tried; the key login goes to the default port
testSSHKeyAuthentication_WriteFirst ==
    /\ pc = "i_verify"
    /\ \E ok \in KeyLoginOutcomes(Account) :
         /\ connections' = connections \cup
               {Session("key", basicInfo.host, basicInfo.user,
                        PortOrDefault(basicInfo.port), ok)}
         /\ addServerDo(name, InitRecord)
         /\ IF ok
            THEN /\ sshKey' = "disposed"
                 /\ Goto("i_add")
            ELSE /\ UNCHANGED sshKey
                 /\ Exit(1, "verify")
    /\ UNCHANGED <<keyFiles, authorizedKeys, verified, snap, lib, name, basicInfo,
                   serverCfg, password, ssh, mkdirResult, result1, result2, diag, remote>>

testSSHKeyAuthentication_Port22 ==
    /\ pc = "i_verify"
    /\ \E ok \in KeyLoginOutcomes(Account) :
         /\ connections' = connections \cup
               {Session("key", basicInfo.host, basicInfo.user, DefaultPort, ok)}
         /\ IF ok
            THEN /\ sshKey' = "disposed"
                 /\ Goto("i_add")
            ELSE /\ UNCHANGED sshKey
                 /\ Exit(1, "verify")
    /\ UNCHANGED <<persist, snap, lib, name, basicInfo, serverCfg, password, ssh,
                   mkdirResult, result1, result2, diag, remote>>

\* testSSHKeyAuthentication: read the private key, connect, dispose
testSSHKeyAuthentication ==
    /\ pc = "i_verify"
    /\ \E readOk \in BOOLEAN, ok \in KeyLoginOutcomes(Account) :
         IF ~ readOk
         THEN /\ Exit(1, "keyread")
              /\ UNCHANGED <<connections, sshKey>>
         ELSE /\ connections' = connections \cup
                    {Session("key", basicInfo.host, basicInfo.user,
                             PortOrDefault(basicInfo.port), ok)}
              /\ IF ok
                 THEN /\ sshKey' = "disposed"
                      /\ Goto("i_add")
                 ELSE /\ UNCHANGED sshKey
                      /\ Exit(1, "verify")
    /\ UNCHANGED <<persist, snap, lib, name, basicInfo, serverCfg, password, ssh,
                   mkdirResult, result1, result2, diag, remote>>

InitAddServer ==
    /\ pc = "i_add"
    /\ \E saveOk \in BOOLEAN :
         IF saveOk
         THEN /\ addServerDo(name, InitRecord)
              /\ verified' = [a \in DOMAIN verified \cup {name} |->
                                IF a = name
                                THEN [host |-> basicInfo.host,
                                      user |-> basicInfo.user,
                                      port |-> PortOrDefault(basicInfo.port)]
                                ELSE verified[a]]
              /\ Exit(0, "ok")
         ELSE /\ UNCHANGED <<cfg, keychain, verified, disk>>
              /\ Exit(1, "setup_failed")
    /\ UNCHANGED <<keyFiles, authorizedKeys, runv, snap, lib, connections>>

(***************************************************************************)
(* remove (commands/remove.js).                                            *)
(***************************************************************************)
RemoveStart(n) ==
    /\ Begin("remove", n)
    /\ IF ~ hasServer(cfg, n)
       THEN /\ pc' = "exit" /\ exitCode' = 0 /\ report' = "not_found"
            /\ UNCHANGED serverCfg
       ELSE /\ serverCfg' = getServer(cfg, keychain, n)
            /\ pc' = "r_confirm"
            /\ UNCHANGED <<exitCode, report>>
    /\ UNCHANGED <<persist, basicInfo, password, ssh, sshKey, mkdirResult,
                   result1, result2, diag, connections>>

RemoveConfirm ==
    /\ pc = "r_confirm"
    /\ \E deleteRemote \in BOOLEAN :
         IF deleteRemote THEN Goto("r_password") ELSE Goto("r_remove")
    /\ UNCHANGED <<persist, runv, snap, lib, connections>>

RemovePassword ==
    /\ pc = "r_password"
    /\ \E pw \in Passwords : password' = pw
    /\ Goto("r_connect")
    /\ UNCHANGED <<persist, snap, lib, connections, name, basicInfo, serverCfg, ssh,
                   sshKey, mkdirResult, result1, result2, diag, remote>>

RemoteCleanup(rep) ==
    /\ ssh' = "disposed"
    /\ pc' = "r_remove"
    /\ report' = rep
    /\ UNCHANGED <<cmd, exitCode>>

\* a failure anywhere in the remote cleanup is caught: dispose and go on
RemoveConnect ==
    /\ pc = "r_connect"
    /\ \E ok \in ConnectOutcomes(serverCfg.host) :
         /\ connections' = connections \cup
               {Session("password", serverCfg.host, serverCfg.user,
                        PortOrDefault(serverCfg.port), ok)}
         /\ IF ok
            THEN /\ ssh' = "open"
                 /\ Goto("r_pubkey")
            ELSE RemoteCleanup("remote_failed")
    /\ UNCHANGED <<persist, snap, lib, name, basicInfo, serverCfg, password, sshKey,
                   mkdirResult, result1, result2, diag, remote>>

RemoveReadPubKey ==
    /\ pc = "r_pubkey"
    /\ \E readOk \in BOOLEAN :
         IF keyFiles = "pair" /\ readOk
         THEN /\ Goto("r_exec")
              /\ UNCHANGED ssh
         ELSE RemoteCleanup("remote_failed")
    /\ UNCHANGED <<persist, snap, lib, connections, name, basicInfo, serverCfg,
                   password, sshKey, mkdirResult, result1, result2, diag, remote>>

\* sed -i.bak "/'<key>'/d" ~/.ssh/authorized_keys: inside the double quotes
\* the single quotes are part of the pattern, which therefore matches no
\* line of the file; the file keeps its key lines whatever the exit code
RemoveExec ==
    /\ pc = "r_exec"
    /\ \E r \in ExecOutcomes :
         RemoteCleanup(IF r = "throw" THEN "remote_failed"
                       ELSE IF r \in {"0", "null"} THEN "remote_removed"
                       ELSE "remote_unverified")
    /\ UNCHANGED <<persist, snap, lib, connections, name, basicInfo, serverCfg,
                   password, sshKey, mkdirResult, result1, result2, diag, remote>>

RemoveFinish ==
    /\ pc = "r_remove"
    /\ \E saveOk \in BOOLEAN, delOk \in BOOLEAN :
         IF saveOk
         THEN /\ removeServerDo(name, delOk)
              /\ Exit(0, "removed")
         ELSE /\ UNCHANGED <<cfg, keychain, verified, disk>>
              /\ Exit(1, "crash")
    /\ UNCHANGED <<keyFiles, authorizedKeys, runv, snap, lib, connections>>

(***************************************************************************)
(* connect (commands/connect.js).                                          *)
(***************************************************************************)
\* mutant of ConnectStart: validatePrivateKeyExists is left out
ConnectStart_NoKeyCheck(n) ==
    /\ Begin("connect", n)
    /\ IF ~ hasServer(cfg, n)
       THEN /\ pc' = "exit" /\ exitCode' = 1 /\ report' = "not_found"
            /\ UNCHANGED serverCfg
       ELSE /\ serverCfg' = getServer(cfg, keychain, n)
            /\ pc' = "c_connect" /\ UNCHANGED <<exitCode, report>>
    /\ UNCHANGED <<persist, basicInfo, password, ssh, sshKey, mkdirResult,
                   result1, result2, diag, connections>>

\* connect up to ssh.connect: getServer, validateServerConfig,
\* validatePrivateKeyExists, readFileSync of the private key
ConnectStart(n) ==
    /\ Begin("connect", n)
    /\ \E readOk \in BOOLEAN :
         IF ~ hasServer(cfg, n)
         THEN /\ pc' = "exit" /\ exitCode' = 1 /\ report' = "not_found"
              /\ UNCHANGED serverCfg
         ELSE /\ serverCfg' = getServer(cfg, keychain, n)
              /\ IF keyFiles = "none"
                 THEN pc' = "exit" /\ exitCode' = 1 /\ report' = "key_missing"
                 ELSE IF ~ readOk
                 THEN pc' = "exit" /\ exitCode' = 1 /\ report' = "keyread"
                 ELSE pc' = "c_connect" /\ UNCHANGED <<exitCode, report>>
    /\ UNCHANGED <<persist, basicInfo, password, ssh, sshKey, mkdirResult,
                   result1, result2, diag, connections>>

\* a rejected connect goes to the catch block, whose call
\* handleConnectionError(err, name, authType) names an undeclared authType
ConnectOpen ==
    /\ pc = "c_connect"
    /\ \E ok \in KeyLoginOutcomes(<<serverCfg.host, serverCfg.user>>) :
         /\ connections' = connections \cup
               {Session("key", serverCfg.host, serverCfg.user,
                        PortOrDefault(serverCfg.port), ok)}
         /\ IF ok
            THEN /\ ssh' = "open"
                 /\ Goto("c_shell")
            ELSE /\ UNCHANGED ssh
                 /\ Exit(1, "crash")
    /\ UNCHANGED <<persist, snap, lib, name, basicInfo, serverCfg, password, sshKey,
                   mkdirResult, result1, result2, diag, remote>>

ConnectShell ==
    /\ pc = "c_shell"
    /\ \E ok \in BOOLEAN :
         IF ok THEN Goto("c_session") ELSE Exit(1, "crash")
    /\ UNCHANGED <<persist, runv, snap, lib, connections>>

\* shell 'close' or SIGINT: dispose and exit(0)
ConnectClose ==
    /\ pc = "c_session"
    /\ ssh' = "disposed"
    /\ Exit(0, "ok")
    /\ UNCHANGED <<persist, snap, lib, connections, name, basicInfo, serverCfg,
                   password, sshKey, mkdirResult, result1, result2, diag, remote>>

(***************************************************************************)
(* handleConnectionError (commands/connect.js).  An error message is a     *)
(* sequence of words; includes() looks for a marker among the words.       *)
(***************************************************************************)
ErrWords ==
    {"ENOTFOUND", "getaddrinfo", "ECONNREFUSED", "ETIMEDOUT", "Timeout",
     "Authentication", "Permission denied", "handshake"}

toLowerCase(w) ==
    CASE w = "ENOTFOUND" -> "enotfound"
      [] w = "ECONNREFUSED" -> "econnrefused"
      [] w = "ETIMEDOUT" -> "etimedout"
      [] w = "Timeout" -> "timeout"
      [] w = "Authentication" -> "authentication"
      [] w = "Permission denied" -> "permission denied"
      [] OTHER -> w

ErrorMessages == UNION {[1..k -> ErrWords] : k \in 0..MaxWords}

AuthTypes == {"key", "password", "undefined"}

includes(text, marker) == \E i \in 1..Len(text) : text[i] = marker

\* mutant of handleConnectionError: the timeout branch comes before the
\* connection-refused branch
handleConnectionError_TimeoutFirst(message, authType) ==
    LET errorMsg == [i \in 1..Len(message) |-> toLowerCase(message[i])]
        branch ==
            IF includes(errorMsg, "enotfound") \/ includes(errorMsg, "getaddrinfo")
            THEN "resolve"
            ELSE IF includes(errorMsg, "etimedout") \/ includes(errorMsg, "timeout")
            THEN "timeout"
            ELSE IF includes(errorMsg, "econnrefused")
            THEN "refused"
            ELSE IF includes(errorMsg, "authentication")
                    \/ includes(errorMsg, "permission denied")
            THEN "auth"
            ELSE "raw"
    IN [category |-> branch, guidance |-> branch = "auth" /\ authType = "key"]

\* the if / else-if chain on String(err?.message || "").toLowerCase()
handleConnectionError(message, authType) ==
    LET errorMsg == [i \in 1..Len(message) |-> toLowerCase(message[i])]
        branch ==
            IF includes(errorMsg, "enotfound") \/ includes(errorMsg, "getaddrinfo")
            THEN "resolve"
            ELSE IF includes(errorMsg, "econnrefused")
            THEN "refused"
            ELSE IF includes(errorMsg, "etimedout") \/ includes(errorMsg, "timeout")
            THEN "timeout"
            ELSE IF includes(errorMsg, "authentication")
                    \/ includes(errorMsg, "permission denied")
            THEN "auth"
            ELSE "raw"
    IN [category |-> branch, guidance |-> branch = "auth" /\ authType = "key"]

\* the call of handleConnectionError: print the branch's message, exit(1)
HandleConnectionError ==
    /\ pc = "c_catch"
    /\ LET out == handleConnectionError(errMessage, errAuthType)
       IN /\ category' = out.category
          /\ guidance' = out.guidance
    /\ Exit(1, "classified")
    /\ UNCHANGED <<persist, runv, snap, api, utl, connections, errMessage, errAuthType>>

\* between two invocations the user deletes or moves the key files (the
\* causes validatePrivateKeyExists lists): the pair, or the .pub file alone
KeyFilesLost ==
    /\ pc = "idle"
    /\ keyFiles # "none"
    /\ keyFiles' \in {"none", "priv"} \ {keyFiles}
    /\ UNCHANGED <<cfg, keychain, authorizedKeys, verified, disk, runv, snap, lib, ctl,
                   connections>>

\* the process has ended; the next invocation starts with fresh memory
Restart ==
    /\ pc = "exit"
    /\ pc' = "idle"
    /\ cmd' = "none"
    /\ name' = NoAlias
    /\ basicInfo' = NoInfo
    /\ serverCfg' = NoServerCfg
    /\ password' = NoPassword
    /\ ssh' = "none"
    /\ sshKey' = "none"
    /\ mkdirResult' = "none"
    /\ result1' = "none"
    /\ result2' = "none"
    /\ diag' = {}
    /\ exitCode' = -1
    /\ report' = "none"
    /\ connections' = {}
    /\ cfg0' = EmptyMap
    /\ keychain0' = EmptyMap
    /\ keyFiles0' = "none"
    /\ dirMode' = "unknown"
    /\ fileMode' = "unknown"
    /\ chmodResult' = "none"
    /\ UNCHANGED <<persist, lib>>

InitCommand ==
    \/ \E n \in Aliases : InitStart(n)
    \/ InitConfirm
    \/ InitPrompt
    \/ InitEnsureKey
    \/ InitCheckConflict
    \/ InitPassword
    \/ InitConnect
    \/ InitReadPubKey
    \/ InstallMkdir
    \/ tryDirectAppendMethod
    \/ InstallChmod1
    \/ tryBase64Method
    \/ InstallChmod2
    \/ InitCheckConfig
    \/ testSSHKeyAuthentication
    \/ InitAddServer

RemoveCommand ==
    \/ \E n \in Aliases : RemoveStart(n)
    \/ RemoveConfirm
    \/ RemovePassword
    \/ RemoveConnect
    \/ RemoveReadPubKey
    \/ RemoveExec
    \/ RemoveFinish

ConnectCommand ==
    \/ \E n \in Aliases : ConnectStart(n)
    \/ ConnectOpen
    \/ ConnectShell
    \/ ConnectClose

Next ==
    \/ InitCommand
    \/ RemoveCommand
    \/ ConnectCommand
    \/ KeyFilesLost
    \/ Restart

Spec == Init /\ [][Next]_vars

(***************************************************************************)
(* The store API called directly (config/store.js): loadConfig, addServer, *)
(* getServer, removeServer.  op is the call, ret what it returned or threw:*)
(* kind "object" (rec or map), "undefined", "void" or "threw" (err).       *)
(***************************************************************************)
\* the objects addServer is called with
AddInputs ==
    [host : {H1}, user : {U1}, port : {2222}, authType : {"key"},
     keyPath : {CanonicalKeyPath, ""}, passphrase : {NoPassword} \cup Passphrases]

\* entries a config.json written by hand or by another version can hold
DiskRecords ==
    [host : {H1}, user : {U1}, authType : {"key", "password"},
     keyPath : {CanonicalKeyPath}, port : {2222},
     passphrase : {NoPassword, "pp2"}]

DiskContents == UNION {[S -> DiskRecords] : S \in SUBSET StoreAliases}

Threw(e) == [kind |-> "threw", err |-> e, rec |-> NoServerCfg, map |-> EmptyMap]

Returned(k, r, m) == [kind |-> k, err |-> "none", rec |-> r, map |-> m]

\* what a call of the store API leaves alone besides the two stores
cli == <<keyFiles, authorizedKeys, runv, snap, ctl, connections, cls, utl>>

StoreLoad ==
    /\ op' = [fn |-> "load", name |-> NoAlias, obj |-> NoServerCfg]
    /\ LET r == loadConfig(file, cfg)
       IN ret' = IF r.err # "none" THEN Threw(r.err)
                 ELSE Returned("object", NoServerCfg, r.map)
    /\ UNCHANGED <<cfg, keychain, verified, disk, cli>>

\* mutant of StoreGet: a record without a keychain entry is an error
StoreGet_SecretRequired(n) ==
    /\ op' = [fn |-> "get", name |-> n, obj |-> NoServerCfg]
    /\ LET r == loadConfig(file, cfg)
       IN ret' = IF r.err # "none" THEN Threw(r.err)
                 ELSE IF ~ hasServer(r.map, n)
                 THEN Returned("undefined", NoServerCfg, EmptyMap)
                 ELSE IF n \notin DOMAIN keychain THEN Threw("keytar")
                 ELSE Returned("object", getServer(r.map, keychain, n), EmptyMap)
    /\ UNCHANGED <<cfg, keychain, verified, disk, cli>>

StoreGet(n) ==
    /\ op' = [fn |-> "get", name |-> n, obj |-> NoServerCfg]
    /\ LET r == loadConfig(file, cfg)
       IN ret' = IF r.err # "none" THEN Threw(r.err)
                 ELSE IF ~ hasServer(r.map, n)
                 THEN Returned("undefined", NoServerCfg, EmptyMap)
                 ELSE Returned("object", getServer(r.map, keychain, n), EmptyMap)
    /\ UNCHANGED <<cfg, keychain, verified, disk, cli>>

\* mutant of StoreAdd: saveConfig comes before keytar.setPassword
StoreAdd_FileFirst(n, obj) ==
    /\ op' = [fn |-> "add", name |-> n, obj |-> obj]
    /\ \E setOk \in BOOLEAN, saveOk \in BOOLEAN :
         LET r == loadConfig(file, cfg)
             supplied == obj.passphrase # NoPassword /\ obj.passphrase # ""
         IN IF r.err # "none"
            THEN /\ ret' = Threw(r.err)
                 /\ UNCHANGED <<cfg, keychain, disk>>
            ELSE IF ~ saveOk
            THEN /\ ret' = Threw("io")
                 /\ UNCHANGED <<cfg, keychain, disk>>
            ELSE IF supplied /\ ~ setOk
            THEN /\ cfg' = addServerCfg(cfg, n, obj)
                 /\ file' = "valid"
                 /\ dirExists' = TRUE
                 /\ ret' = Threw("keytar")
                 /\ UNCHANGED <<keychain, backup>>
            ELSE /\ addServerDo(n, obj)
                 /\ ret' = Returned("void", NoServerCfg, EmptyMap)
    /\ UNCHANGED <<verified, cli>>

\* addServer: load, build the entry, keytar.setPassword when a passphrase is
\* supplied, then saveConfig; either of the two writes can throw
StoreAdd(n, obj) ==
    /\ op' = [fn |-> "add", name |-> n, obj |-> obj]
    /\ \E setOk \in BOOLEAN, saveOk \in BOOLEAN :
         LET r == loadConfig(file, cfg)
             supplied == obj.passphrase # NoPassword /\ obj.passphrase # ""
         IN IF r.err # "none"
            THEN /\ ret' = Threw(r.err)
                 /\ UNCHANGED <<cfg, keychain, disk>>
            ELSE IF supplied /\ ~ setOk
            THEN /\ ret' = Threw("keytar")
                 /\ UNCHANGED <<cfg, keychain, disk>>
            ELSE IF ~ saveOk
            THEN /\ keychain' = addServerKeychain(keychain, n, obj)
                 /\ ret' = Threw("io")
                 /\ UNCHANGED <<cfg, disk>>
            ELSE /\ addServerDo(n, obj)
                 /\ ret' = Returned("void", NoServerCfg, EmptyMap)
    /\ UNCHANGED <<verified, cli>>

\* removeServer: load, delete, save, then the keychain delete in try / catch
StoreRemove(n) ==
    /\ op' = [fn |-> "remove", name |-> n, obj |-> NoServerCfg]
    /\ \E saveOk \in BOOLEAN, delOk \in BOOLEAN :
         LET r == loadConfig(file, cfg)
         IN IF r.err # "none"
            THEN /\ ret' = Threw(r.err)
                 /\ UNCHANGED <<cfg, keychain, verified, disk>>
            ELSE IF ~ saveOk
            THEN /\ ret' = Threw("io")
                 /\ UNCHANGED <<cfg, keychain, verified, disk>>
            ELSE /\ removeServerDo(n, delOk)
                 /\ ret' = Returned("void", NoServerCfg, EmptyMap)
    /\ UNCHANGED cli

\* a first run: no config file yet, any content of the keychain
InitStore ==
    /\ cfg = EmptyMap
    /\ file = "absent"
    /\ dirExists = FALSE
    /\ backup = NoBackup
    /\ NoUtil
    /\ \E S \in SUBSET StoreAliases : keychain = [a \in S |-> "pp1"]
    /\ keyFiles = "pair"
    /\ authorizedKeys = [acc \in Accounts |-> 0]
    /\ verified = EmptyMap
    /\ NoCommand
    /\ op = NoOp
    /\ ret = NoRet
    /\ NoCall

\* any config file: none, one that does not parse, or one with entries
InitStoreFile ==
    /\ file \in {"absent", "corrupt", "valid"}
    /\ IF file = "valid" THEN cfg \in DiskContents ELSE cfg = EmptyMap
    /\ dirExists = (file # "absent")
    /\ backup = NoBackup
    /\ NoUtil
    /\ \E S \in SUBSET StoreAliases : keychain = [a \in S |-> "pp1"]
    /\ keyFiles = "pair"
    /\ authorizedKeys = [acc \in Accounts |-> 0]
    /\ verified = EmptyMap
    /\ NoCommand
    /\ op = NoOp
    /\ ret = NoRet
    /\ NoCall

NextStore ==
    \/ StoreLoad
    \/ \E n \in StoreAliases : StoreGet(n)
    \/ \E n \in StoreAliases, obj \in AddInputs : StoreAdd(n, obj)
    \/ \E n \in StoreAliases : StoreRemove(n)

SpecStore == InitStore /\ [][NextStore]_vars

SpecStoreFile == InitStoreFile /\ [][NextStore]_vars

(***************************************************************************)
(* saveConfig step by step (config/store.js).  fs.writeFileSync opens the  *)
(* file with flag 'w', which creates it or truncates it to zero bytes, and *)
(* then writes the bytes; the process can be stopped between two steps.    *)
(***************************************************************************)
\* the mappings saveConfig is called with
SaveInputs == DiskContents

\* exit status of a process ended by SIGKILL
Killed == 137

\* what saveConfig leaves alone
outsideSave == <<keychain, keyFiles, authorizedKeys, verified, backup, runv, snap,
                 connections, cmd, exitCode, report, op, cls, utl>>

\* if (!fs.existsSync(dir)) fs.mkdirSync(dir)
SaveEnsureDir ==
    /\ pc = "s_dir"
    /\ IF dirExists
       THEN /\ pc' = "s_open"
            /\ UNCHANGED <<dirExists, ret>>
       ELSE \E ok \in BOOLEAN :
              IF ok
              THEN /\ dirExists' = TRUE
                   /\ pc' = "s_open"
                   /\ UNCHANGED ret
              ELSE /\ ret' = Threw("io")
                   /\ pc' = "s_done"
                   /\ UNCHANGED dirExists
    /\ UNCHANGED <<cfg, file, outsideSave>>

\* writeFileSync, the open: a file of zero bytes is left, which does not parse
SaveOpen ==
    /\ pc = "s_open"
    /\ \E ok \in BOOLEAN :
         IF ok
         THEN /\ file' = "corrupt"
              /\ cfg' = EmptyMap
              /\ pc' = "s_write"
              /\ UNCHANGED ret
         ELSE /\ ret' = Threw("io")
              /\ pc' = "s_done"
              /\ UNCHANGED <<cfg, file>>
    /\ UNCHANGED <<dirExists, outsideSave>>

\* writeFileSync, the write of JSON.stringify(data, null, 2): all the bytes,
\* or an error (disk full) after some of them
SaveWrite ==
    /\ pc = "s_write"
    /\ \E ok \in BOOLEAN :
         IF ok
         THEN /\ file' = "valid"
              /\ cfg' = data
              /\ ret' = Returned("void", NoServerCfg, EmptyMap)
         ELSE /\ ret' = Threw("io")
              /\ UNCHANGED <<cfg, file>>
    /\ pc' = "s_done"
    /\ UNCHANGED <<dirExists, outsideSave>>

\* the process is stopped (kill -9, power loss) while saveConfig runs
ProcessStop ==
    /\ pc \in {"s_dir", "s_open", "s_write"}
    /\ pc' = "exit"
    /\ exitCode' = Killed
    /\ UNCHANGED <<persist, runv, snap, connections, cmd, report, lib>>

\* saveConfig(data) is called on any store: no directory, no file, or a file
\* with entries
InitSave ==
    /\ file \in {"absent", "valid"}
    /\ IF file = "valid" THEN cfg \in DiskContents ELSE cfg = EmptyMap
    /\ dirExists \in (IF file = "absent" THEN BOOLEAN ELSE {TRUE})
    /\ backup = NoBackup
    /\ keychain = EmptyMap
    /\ keyFiles = "pair"
    /\ authorizedKeys = [acc \in Accounts |-> 0]
    /\ verified = EmptyMap
    /\ pc = "s_dir"
    /\ cmd = "none"
    /\ FreshRun
    /\ op = NoOp
    /\ ret = NoRet
    /\ NoCall
    /\ data \in SaveInputs
    /\ NoRetry
    /\ NoPortCheck
    /\ procs = NoProcs

NextSave ==
    \/ SaveEnsureDir
    \/ SaveOpen
    \/ SaveWrite
    \/ ProcessStop

SpecSave == InitSave /\ [][NextSave]_vars

(***************************************************************************)
(* retryWithBackoff (utils/edge-cases.js), one action per await.  fn is    *)
(* any async operation: each call of it resolves with a value or rejects   *)
(* with an Error, which the model names by its message.                    *)
(***************************************************************************)
\* initialDelay, in milliseconds
Delays == {50, 100}

\* maxRetries of an options object without that property, such as
\* {maxAttempts: 3, initialDelay: 100}: undefined, and i < undefined is false
\* for every number i, as i < -1 is for every i >= 0
NoLimit == -1

RetryOptions ==
    {NoOptions} \cup
    [given : {TRUE}, maxRetries : {NoLimit} \cup 0..MaxRetries, initialDelay : Delays]

\* values fn resolves with: an object without a success field (the NodeSSH
\* instance of the documented example) and an object with success: true
FnValues ==
    {[success |-> "undefined", error |-> "undefined", value |-> "ssh"],
     [success |-> "true", error |-> "undefined", value |-> "data"]}

\* messages of the errors fn rejects with
FnErrors == {"e1", "e2"}

defaults == [given |-> TRUE, maxRetries |-> 3, initialDelay |-> 100]

\* options || defaults
finalOptions == IF options.given THEN options ELSE defaults

RECURSIVE Pow(_, _)
\* Math.pow on non-negative integers
Pow(b, e) == IF e = 0 THEN 1 ELSE b * Pow(b, e - 1)

\* what retryWithBackoff leaves alone
outsideRetry == <<persist, runv, snap, connections, cmd, exitCode, report, api, cls, data,
                  prt, options, procs>>

\* mutant of RetryAttempt: the loop runs while i <= maxRetries
RetryAttempt_OneMore ==
    /\ pc = "rb_loop"
    /\ iter <= finalOptions.maxRetries
    /\ \/ \E v \in FnValues :
            /\ calls' = Append(calls, [ok |-> TRUE, value |-> v, err |-> "none"])
            /\ returned' = [kind |-> "value", val |-> v]
            /\ pc' = "rb_done"
            /\ UNCHANGED <<iter, lastError>>
       \/ \E e \in FnErrors :
            /\ calls' = Append(calls, [ok |-> FALSE, value |-> NoValue, err |-> e])
            /\ lastError' = e
            /\ IF iter < finalOptions.maxRetries - 1
               THEN pc' = "rb_wait" /\ UNCHANGED iter
               ELSE pc' = "rb_loop" /\ iter' = iter + 1
            /\ UNCHANGED returned
    /\ UNCHANGED <<waits, outsideRetry>>

\* one pass of the loop body up to its await: return await fn(), or the
\* catch block, which goes to the wait unless this was the last attempt
RetryAttempt ==
    /\ pc = "rb_loop"
    /\ iter < finalOptions.maxRetries
    /\ \/ \E v \in FnValues :
            /\ calls' = Append(calls, [ok |-> TRUE, value |-> v, err |-> "none"])
            /\ returned' = [kind |-> "value", val |-> v]
            /\ pc' = "rb_done"
            /\ UNCHANGED <<iter, lastError>>
       \/ \E e \in FnErrors :
            /\ calls' = Append(calls, [ok |-> FALSE, value |-> NoValue, err |-> e])
            /\ lastError' = e
            /\ IF iter < finalOptions.maxRetries - 1
               THEN pc' = "rb_wait" /\ UNCHANGED iter
               ELSE pc' = "rb_loop" /\ iter' = iter + 1
            /\ UNCHANGED returned
    /\ UNCHANGED <<waits, outsideRetry>>

\* mutant of RetryWait: the first delay is already doubled
RetryWait_FromTwo ==
    /\ pc = "rb_wait"
    /\ waits' = Append(waits, finalOptions.initialDelay * Pow(2, iter + 1))
    /\ iter' = iter + 1
    /\ pc' = "rb_loop"
    /\ UNCHANGED <<lastError, calls, returned, outsideRetry>>

\* delay = initialDelay * Math.pow(2, i); await setTimeout(delay); i++
RetryWait ==
    /\ pc = "rb_wait"
    /\ waits' = Append(waits, finalOptions.initialDelay * Pow(2, iter))
    /\ iter' = iter + 1
    /\ pc' = "rb_loop"
    /\ UNCHANGED <<lastError, calls, returned, outsideRetry>>

\* after the loop: return {success: false, error: lastError.message}, which
\* is a TypeError when no call was made and lastError is undefined
RetryExhausted ==
    /\ pc = "rb_loop"
    /\ ~ (iter < finalOptions.maxRetries)
    /\ returned' = IF lastError = "undefined"
                   THEN [kind |-> "threw", val |-> NoValue]
                   ELSE [kind |-> "value",
                         val |-> [success |-> "false", error |-> lastError,
                                  value |-> "undefined"]]
    /\ pc' = "rb_done"
    /\ UNCHANGED <<iter, lastError, calls, waits, outsideRetry>>

InitRetry ==
    /\ cfg = EmptyMap
    /\ file = "absent"
    /\ dirExists = FALSE
    /\ backup = NoBackup
    /\ keychain = EmptyMap
    /\ keyFiles = "pair"
    /\ authorizedKeys = [acc \in Accounts |-> 0]
    /\ verified = EmptyMap
    /\ pc = "rb_loop"
    /\ cmd = "none"
    /\ FreshRun
    /\ op = NoOp
    /\ ret = NoRet
    /\ NoCall
    /\ data = EmptyMap
    /\ NoPortCheck
    /\ procs = NoProcs
    /\ options \in RetryOptions
    /\ RetryStart

NextRetry ==
    \/ RetryAttempt
    \/ RetryWait
    \/ RetryExhausted

SpecRetry == InitRetry /\ [][NextRetry]_vars

\* every call of fn settles and every timer fires
SpecRetryFair == SpecRetry /\ WF_vars(NextRetry)

(***************************************************************************)
(* The two port checks on the same text: validatePort (utils/edge-cases.js)*)
(* parses with radix 10, the validate function of init's port prompt with  *)
(* parseInt(input), which also reads a 0x prefix as hexadecimal.           *)
(***************************************************************************)
PortChars == {"-", "0", "1", "3", "5", "6", "x"}

PortTexts == UNION {[1..k -> PortChars] : k \in 0..MaxPortLen}

\* parseInt(s, radix), radix 0 standing for the one-argument call: a sign,
\* a 0x prefix when the radix allows it, then the longest run of digits;
\* [nan, n] with nan when there is no digit
parseInt(s, radix) ==
    LET Digit(c) == CASE c = "0" -> 0 [] c = "1" -> 1 [] c = "3" -> 3
                      [] c = "5" -> 5 [] c = "6" -> 6 [] OTHER -> -1
        neg == Len(s) > 0 /\ s[1] = "-"
        body == IF neg THEN Tail(s) ELSE s
        hex == radix = 0 /\ Len(body) >= 2 /\ body[1] = "0" /\ body[2] = "x"
        digits == IF hex THEN SubSeq(body, 3, Len(body)) ELSE body
        r == IF hex THEN 16 ELSE 10
        run == CHOOSE k \in 0..Len(digits) :
                  /\ \A j \in 1..k : Digit(digits[j]) >= 0
                  /\ k < Len(digits) => Digit(digits[k + 1]) < 0
        val[k \in 0..run] == IF k = 0 THEN 0 ELSE val[k - 1] * r + Digit(digits[k])
    IN IF run = 0 THEN [nan |-> TRUE, n |-> 0]
       ELSE [nan |-> FALSE, n |-> IF neg THEN 0 - val[run] ELSE val[run]]

\* both checks applied to the text
ValidatePort ==
    /\ pc = "vp_call"
    /\ LET num == parseInt(portText, 10)
           port == parseInt(portText, 0)
       IN /\ valid' = IF ~ num.nan /\ validatePort(num.n) THEN "true" ELSE "false"
          /\ accepted' = IF ~ port.nan /\ PromptPortValid(port.n)
                         THEN "true" ELSE "false"
    /\ pc' = "vp_done"
    /\ UNCHANGED <<persist, runv, snap, connections, cmd, exitCode, report, api, cls,
                   data, rtr, portText, procs>>

InitPort ==
    /\ cfg = EmptyMap
    /\ file = "absent"
    /\ dirExists = FALSE
    /\ backup = NoBackup
    /\ keychain = EmptyMap
    /\ keyFiles = "pair"
    /\ authorizedKeys = [acc \in Accounts |-> 0]
    /\ verified = EmptyMap
    /\ pc = "vp_call"
    /\ cmd = "none"
    /\ FreshRun
    /\ op = NoOp
    /\ ret = NoRet
    /\ NoCall
    /\ data = EmptyMap
    /\ NoRetry
    /\ procs = NoProcs
    /\ portText \in PortTexts
    /\ valid = "none"
    /\ accepted = "none"

NextPort == ValidatePort

SpecPort == InitPort /\ [][NextPort]_vars

(***************************************************************************)
(* remove on its own (commands/remove.js): one invocation on any store     *)
(* that parses, with any name the command line can carry.                  *)
(***************************************************************************)
InitRemove == InitStoreFile /\ file # "corrupt"

NextRemove ==
    \/ \E n \in StoreAliases : RemoveStart(n)
    \/ RemoveCommand

SpecRemove == InitRemove /\ [][NextRemove]_vars

(***************************************************************************)
(* Two CLI invocations at once on the same ~/.fastssh: each is an OS       *)
(* process of its own, so they interleave at every file system call.  An   *)
(* invocation is init (commands/init.js, as far as it reads and writes the *)
(* store) or one call of addServer or removeServer (config/store.js).      *)
(* saveConfig is existsSync(dir), then mkdirSync and the open of           *)
(* writeFileSync, which truncates, then the write.  Nothing locks the file.*)
(***************************************************************************)
\* what the two invocations leave alone
outsideProcs == <<keyFiles, authorizedKeys, verified, backup, runv, snap, ctl, connections,
                  api, cls, data, rtr, prt>>

\* the invocation starts: init runs hasServer(name) first (init.js:173), a
\* store call is at its loadConfig
ProcStart(p, c, n, u) ==
    /\ procs[p].pc = "idle"
    /\ LET r == loadConfig(file, cfg)
           me == [procs[p] EXCEPT !.cmd = c, !.name = n, !.host = H1, !.user = u]
       IN procs' = [procs EXCEPT ![p] =
                      IF c # "init" THEN [me EXCEPT !.pc = "c_load", !.call = c]
                      ELSE IF r.err # "none"
                      THEN [me EXCEPT !.pc = "exit", !.outcome = "threw"]
                      ELSE IF hasServer(r.map, n) THEN [me EXCEPT !.pc = "c_confirm"]
                      ELSE [me EXCEPT !.pc = "c_conflict"]]
    /\ UNCHANGED <<cfg, keychain, disk, outsideProcs>>

\* "Server already exists. Remove and re-create it?", then removeServer(name)
ProcConfirm(p) ==
    /\ procs[p].pc = "c_confirm"
    /\ \E replace \in BOOLEAN :
         procs' = [procs EXCEPT ![p] =
                     IF replace THEN [@ EXCEPT !.pc = "c_load", !.call = "remove"]
                     ELSE [@ EXCEPT !.pc = "exit", !.outcome = "canceled"]]
    /\ UNCHANGED <<cfg, keychain, disk, outsideProcs>>

\* mutant of ProcCheckConflict: the (host, user) pair is not looked up
ProcCheckConflict_Skip(p) ==
    /\ procs[p].pc = "c_conflict"
    /\ procs' = [procs EXCEPT ![p] = [@ EXCEPT !.pc = "c_remote"]]
    /\ UNCHANGED <<cfg, keychain, disk, outsideProcs>>

\* findServerByHostUser(host, user) after the prompts: exit on a hit
ProcCheckConflict(p) ==
    /\ procs[p].pc = "c_conflict"
    /\ LET r == loadConfig(file, cfg)
       IN procs' = [procs EXCEPT ![p] =
                      IF r.err # "none" THEN [@ EXCEPT !.pc = "exit", !.outcome = "threw"]
                      ELSE IF findServerByHostUser(r.map, @.host, @.user) # NoAlias
                      THEN [@ EXCEPT !.pc = "exit", !.outcome = "conflict"]
                      ELSE [@ EXCEPT !.pc = "c_remote"]]
    /\ UNCHANGED <<cfg, keychain, disk, outsideProcs>>

\* password session, key installation and key login: they do not touch the
\* store; any failure exits, success goes on to addServer
ProcRemote(p) ==
    /\ procs[p].pc = "c_remote"
    /\ \E ok \in BOOLEAN :
         procs' = [procs EXCEPT ![p] =
                     IF ok THEN [@ EXCEPT !.pc = "c_load", !.call = "add"]
                     ELSE [@ EXCEPT !.pc = "exit", !.outcome = "failed"]]
    /\ UNCHANGED <<cfg, keychain, disk, outsideProcs>>

\* mutant of ProcLoad: the change is made to a new object, not the loaded one
ProcLoad_Fresh(p) ==
    /\ procs[p].pc = "c_load"
    /\ LET me == procs[p]
           q == CHOOSE o \in Procs : o # p
           obj == [host |-> me.host, user |-> me.user, port |-> DefaultPort,
                   authType |-> "key", keyPath |-> CanonicalKeyPath,
                   passphrase |-> NoPassword]
       IN procs' = [procs EXCEPT ![p] =
                      [me EXCEPT !.pc = "c_stat",
                                 !.fresh = (procs[q].pc = "exit" /\ procs[q].outcome = "done"),
                                 !.loaded = IF me.call = "add"
                                            THEN addServerCfg(EmptyMap, me.name, obj)
                                            ELSE EmptyMap]]
    /\ UNCHANGED <<cfg, keychain, disk, outsideProcs>>

\* const cfg = loadConfig(); cfg[name] = {...} or delete cfg[name]
ProcLoad(p) ==
    /\ procs[p].pc = "c_load"
    /\ LET me == procs[p]
           q == CHOOSE o \in Procs : o # p
           r == loadConfig(file, cfg)
           obj == [host |-> me.host, user |-> me.user, port |-> DefaultPort,
                   authType |-> "key", keyPath |-> CanonicalKeyPath,
                   passphrase |-> NoPassword]
       IN procs' = [procs EXCEPT ![p] =
                      IF r.err # "none" THEN [me EXCEPT !.pc = "exit", !.outcome = "threw"]
                      ELSE [me EXCEPT !.pc = "c_stat",
                                      !.fresh = (procs[q].pc = "exit"
                                                 /\ procs[q].outcome = "done"),
                                      !.loaded = IF me.call = "add"
                                                 THEN addServerCfg(r.map, me.name, obj)
                                                 ELSE removeServerCfg(r.map, me.name)]]
    /\ UNCHANGED <<cfg, keychain, disk, outsideProcs>>

\* saveConfig: fs.existsSync(dir)
ProcSaveStat(p) ==
    /\ procs[p].pc = "c_stat"
    /\ procs' = [procs EXCEPT ![p] = [@ EXCEPT !.pc = "c_open", !.sawDir = dirExists]]
    /\ UNCHANGED <<cfg, keychain, disk, outsideProcs>>

\* saveConfig: fs.mkdirSync(dir) when the directory was not seen, which throws
\* EEXIST when the other invocation has made it since, then the open of
\* writeFileSync with flag 'w': the file is created or cut to zero bytes
ProcSaveOpen(p) ==
    /\ procs[p].pc = "c_open"
    /\ LET q == CHOOSE o \in Procs : o # p
       IN IF ~ procs[p].sawDir /\ dirExists
          THEN /\ procs' = [procs EXCEPT ![p] = [@ EXCEPT !.pc = "exit",
                                                          !.outcome = "threw"]]
               /\ UNCHANGED <<cfg, file, dirExists>>
          ELSE /\ dirExists' = TRUE
               /\ file' = "corrupt"
               /\ cfg' = EmptyMap
               /\ procs' = [procs EXCEPT ![p] = [@ EXCEPT !.pc = "c_write",
                                                          !.overlaid = FALSE],
                                         ![q] = [@ EXCEPT !.overlaid = FALSE]]
    /\ UNCHANGED <<keychain, backup, outsideProcs>>

\* the number of characters of JSON.stringify(data, null, 2): "{}" for no
\* entry, else "{", the entries on lines of their own with "," between, "}";
\* an entry is its quoted alias and its fields, one on a line
TextLength(m) ==
    LET AliasLength(a) == IF a = "db1" THEN 3 ELSE IF a = "web1" THEN 4 ELSE 8
        len == [a \in DOMAIN m |->
                  (AliasLength(a) + 8) + (Len(m[a].host) + 16) + (Len(m[a].user) + 16)
                  + (IF m[a].authType = "key" THEN 21 ELSE 26)
                  + (IF m[a].keyPath # NoKeyPath THEN 32 ELSE 0)
                  + (IF m[a].port # NoPort THEN 18 ELSE 0)
                  + (IF m[a].passphrase # NoPassword THEN 25 ELSE 0)
                  + 4]
    IN IF DOMAIN m = {} THEN 2
       ELSE 2 + SumOver(len, DOMAIN m) + 2 * Cardinality(DOMAIN m)

\* saveConfig: the write of JSON.stringify(data, null, 2) from offset 0.  It
\* lands on an empty file, or on the text the other invocation wrote after
\* this one opened the file: then a longer old text leaves its tail behind
\* and the file does not parse.  removeServer ends with the keychain delete
\* in try / catch; init goes from removeServer to its prompts.
ProcSaveWrite(p) ==
    /\ procs[p].pc = "c_write"
    /\ \E delOk \in BOOLEAN :
         LET me == procs[p]
             q == CHOOSE o \in Procs : o # p
             later == IF me.stamp > procs[q].stamp THEN me.stamp + 1
                      ELSE procs[q].stamp + 1
             intact == \/ ~ me.overlaid
                       \/ file # "valid"
                       \/ TextLength(me.loaded) >= TextLength(cfg)
         IN /\ delOk \/ me.call = "remove"
            /\ file' = IF intact THEN "valid" ELSE "corrupt"
            /\ cfg' = IF intact THEN me.loaded ELSE EmptyMap
            /\ keychain' = IF me.call = "remove" /\ delOk
                           THEN removeServerKeychain(keychain, me.name)
                           ELSE keychain
            /\ procs' = [procs EXCEPT
                           ![p] = IF me.cmd = "init" /\ me.call = "remove"
                                  THEN [me EXCEPT !.pc = "c_conflict", !.stamp = later]
                                  ELSE [me EXCEPT !.pc = "exit", !.outcome = "done",
                                                  !.stamp = later],
                           ![q] = IF @.pc = "c_write" THEN [@ EXCEPT !.overlaid = TRUE]
                                  ELSE @]
    /\ UNCHANGED <<dirExists, backup, outsideProcs>>

\* a store as the CLI leaves it: no file, or a file of records with key
\* authentication, and no passphrase in the keychain
InitConcurrent ==
    /\ InitStoreFile
    /\ file # "corrupt"
    /\ keychain = EmptyMap
    /\ \A a \in DOMAIN cfg :
         a \in Aliases /\ cfg[a].authType = "key" /\ cfg[a].passphrase = NoPassword

NextConcurrent ==
    \E p \in Procs :
        \/ \E c \in {"init", "add", "remove"}, n \in Aliases, u \in {U1, U2} :
              ProcStart(p, c, n, u)
        \/ ProcConfirm(p)
        \/ ProcCheckConflict(p)
        \/ ProcRemote(p)
        \/ ProcLoad(p)
        \/ ProcSaveStat(p)
        \/ ProcSaveOpen(p)
        \/ ProcSaveWrite(p)

SpecConcurrent == InitConcurrent /\ [][NextConcurrent]_vars

(***************************************************************************)
(* handleConnectionError on its own: the catch block has an error and an   *)
(* authType in hand and calls it.                                          *)
(***************************************************************************)
InitClassifier ==
    /\ cfg = EmptyMap
    /\ file = "absent"
    /\ dirExists = FALSE
    /\ backup = NoBackup
    /\ NoUtil
    /\ keychain = EmptyMap
    /\ keyFiles = "pair"
    /\ authorizedKeys = [acc \in Accounts |-> 0]
    /\ verified = EmptyMap
    /\ pc = "c_catch"
    /\ cmd = "connect"
    /\ FreshRun
    /\ op = NoOp
    /\ ret = NoRet
    /\ errMessage \in ErrorMessages
    /\ errAuthType \in AuthTypes
    /\ category = "none"
    /\ guidance = FALSE

NextClassifier == HandleConnectionError

SpecClassifier == InitClassifier /\ [][NextClassifier]_vars

TypeOK ==
    /\ DOMAIN cfg \subseteq Aliases \cup StoreAliases
    /\ DOMAIN keychain \subseteq Aliases \cup StoreAliases
    /\ file \in {"absent", "valid", "corrupt"}
    /\ file # "valid" => cfg = EmptyMap
    /\ file # "absent" => dirExists
    /\ backup.exists \in BOOLEAN
    /\ dirMode \in DirModes \cup {"unknown"}
    /\ fileMode \in FileModes \cup {"unknown"}
    /\ keyFiles \in {"none", "priv", "pair"}
    /\ \A acc \in Accounts : authorizedKeys[acc] \in 0..MaxKeyLines
    /\ exitCode \in {-1, 0, 1, Killed}

(***************************************************************************)
(* Properties.                                                             *)
(***************************************************************************)
InitExited == cmd = "init" /\ pc = "exit"

\* the failures init reports at its steps: key generation, (host, user)
\* conflict, password session / post-install check / store write (the catch
\* block), public key read, key installation, private key read, key login
InitStepFailures ==
    {"keygen", "conflict", "setup_failed", "pubkey", "install", "keyread", "verify"}

\* this run's key login to the entered (host, user, port) succeeded
KeyLoginVerified ==
    \E s \in connections :
        /\ s.auth = "key" /\ s.ok
        /\ s.host = basicInfo.host /\ s.user = basicInfo.user
        /\ s.port = PortOrDefault(basicInfo.port)

\* C1: a run of init that ends in a failure at one of its steps (key
\* generation, password session, key installation, key-login verification,
\* store write) exits with no entry for the alias in the Config Store.
C1_NoRecordAfterFailedInit ==
    (InitExited /\ report \in InitStepFailures) => name \notin DOMAIN cfg

C1_Witness ==
    InitExited /\ report = "verify" /\ authorizedKeys[Account] > 0

\* C2: init writes the record of the alias only after, in the same run, a
\* key-authenticated session to the entered (host, user, port) has connected;
\* after a successful install the run goes to the verification (or fails),
\* and reaches the store write only from a verification that succeeded.
C2_WriteOnlyAfterVerification ==
    [][/\ (cmd = "init" /\ cfg' # cfg /\ name \in DOMAIN cfg')
            => /\ KeyLoginVerified
               /\ pc = "i_add"
               /\ cfg'[name].host = basicInfo.host
               /\ cfg'[name].user = basicInfo.user
       /\ (pc = "i_check" /\ pc' # "i_check")
            => (pc' = "i_verify" \/ (pc' = "exit" /\ exitCode' = 1))
       /\ (cmd = "init" /\ pc' = "i_add") => KeyLoginVerified']_vars

C2_Witness ==
    InitExited /\ report = "ok" /\ basicInfo.port = 2222 /\ name \in DOMAIN cfg

\* C3 (as claimed): after init succeeded for an alias on port p, connect(alias)
\* opens its session to the host, user and port that init verified.
C3_ConnectUsesVerifiedTarget ==
    (cmd = "connect" /\ name \in DOMAIN verified)
        => \A s \in connections :
              /\ s.host = verified[name].host
              /\ s.user = verified[name].user
              /\ s.port = verified[name].port

\* C4 (as claimed): after add(A, fields), get(A) returns the host, user, port
\* and keyPath of fields, with authType = key.
C4_AddGetRoundTrip ==
    (InitExited /\ report = "ok")
        => LET r == getServer(cfg, keychain, name)
           IN /\ r.host = InitRecord.host
              /\ r.user = InitRecord.user
              /\ r.port = InitRecord.port
              /\ r.keyPath = InitRecord.keyPath
              /\ r.authType = "key"

\* C5 (as claimed): when init reports a (host, user) conflict, the Config
\* Store, the secret store and the local key files are as they were when init
\* started, and no network session was opened.
C5_ConflictBeforeMutation ==
    (InitExited /\ report = "conflict")
        => /\ cfg = cfg0
           /\ keychain = keychain0
           /\ keyFiles = keyFiles0
           /\ connections = {}

\* C6: when the alias exists and the user declines the replace confirmation,
\* init ends with the Config Store, the secret store and the key files
\* unchanged and with no network session opened.
C6_DeclineChangesNothing ==
    (InitExited /\ report = "canceled")
        => /\ cfg = cfg0
           /\ keychain = keychain0
           /\ keyFiles = keyFiles0
           /\ connections = {}
           /\ name \in DOMAIN cfg

C6_Witness ==
    InitExited /\ report = "canceled" /\ name \in DOMAIN keychain

\* C7: in every state reachable by init and remove, no two aliases of the
\* Config Store have the same (host, user) pair.
C7_HostUserUnique ==
    \A a, b \in DOMAIN cfg :
        a # b => ~ (cfg[a].host = cfg[b].host /\ cfg[a].user = cfg[b].user)

C7_Witness ==
    InitExited /\ report = "conflict" /\ cfg # EmptyMap

\* C8 (as claimed): when the entered host, username or port is syntactically
\* invalid, init opens no network session and does not touch the store.
C8_ValidationFirst ==
    (/\ cmd = "init"
     /\ basicInfo # NoInfo
     /\ ~ (/\ validateHostname(basicInfo.host)
           /\ validateUsername(basicInfo.user)
           /\ validatePort(basicInfo.port)))
        => /\ \A s \in connections : ~ s.ok
           /\ cfg = cfg0

\* C9 (as claimed): whenever the Remote Installer reports success, the remote
\* authorized-keys file holds the public-key line exactly once.
C9_KeyLineExactlyOnce ==
    (cmd = "init" /\ pc = "i_check") => authorizedKeys[Account] = 1

InstallerDone ==
    cmd = "init" /\ (pc = "i_check" \/ (pc = "exit" /\ report = "install"))

\* C10 (as claimed): Method 1 is tried first; Method 2 is attempted iff
\* Method 1 failed by a non-zero exit or by a thrown error; success is
\* reported as soon as one method succeeds; failure is reported only after
\* both methods were attempted, with the diagnostic output of both.
C10_FallbackOnAnyFailure ==
    InstallerDone
        => /\ (result2 # "none") <=> (result1 \in {"fail", "threw"})
           /\ (pc = "i_check") <=> (result1 = "ok" \/ result2 = "ok")
           /\ (pc = "exit") => /\ result1 \in {"fail", "threw"}
                               /\ result2 \in {"fail", "threw"}
                               /\ diag = {"m1", "m2"}

\* C10 (amended): Method 1 is tried first; Method 2 is attempted iff Method 1
\* returned a non-zero exit code; success is reported only when one method
\* succeeded, and Method 2 is not tried after a successful Method 1; failure
\* is reported either after both methods returned non-zero, with the
\* diagnostic output of both, or at once when a command of the installer
\* throws, with that error's message only.
C10_FallbackOnNonZeroExit ==
    InstallerDone
        => /\ (result2 # "none") <=> (result1 = "fail")
           /\ (pc = "i_check") => (result1 = "ok" \/ result2 = "ok")
           /\ (result1 = "ok") => (result2 = "none")
           /\ (pc = "exit") => \/ /\ diag = {"m1", "m2"}
                                  /\ result1 = "fail"
                                  /\ result2 = "fail"
                               \/ /\ diag = {"err"}
                                  /\ result2 # "fail"

C10_Witness ==
    cmd = "init" /\ pc = "i_check" /\ result1 = "fail" /\ result2 = "ok"

\* C11 (as claimed): whenever the Remote Installer reports success, the
\* remote ~/.ssh directory has mode 700 and the authorized_keys file has mode
\* 600, and no mkdir / chmod command of the installation has failed.
C11_ModesOnSuccess ==
    (cmd = "init" /\ pc = "i_check")
        => /\ dirMode = "700"
           /\ fileMode = "600"
           /\ mkdirResult # "1"
           /\ chmodResult # "1"

C13_ClassifiedExit ==
    (cmd = "connect" /\ pc = "exit" /\ connections # {} /\ report # "ok")
        => /\ report = "classified"
           /\ category # "none"
           /\ errAuthType = serverCfg.authType
           /\ exitCode = 1

\* the categories of the taxonomy in their order of precedence, each with
\* the texts that select it
Precedence == <<"resolve", "refused", "timeout", "auth">>

Markers ==
    [resolve |-> {"enotfound", "getaddrinfo"},
     refused |-> {"econnrefused"},
     timeout |-> {"etimedout", "timeout"},
     auth |-> {"authentication", "permission denied"}]

\* the lower-cased error text contains a marker of the category
Matches(c) ==
    \E i \in 1..Len(errMessage) : toLowerCase(errMessage[i]) \in Markers[c]

\* C14: the classifier picks exactly one category: the earliest category, in
\* the order resolution failure, connection refused, timeout, credential
\* rejected, whose marker the lower-cased error text contains, and the raw
\* pass-through when it contains none; the key remediation is printed iff the
\* category is credential rejected and authType = key.
C14_FirstMatchWins ==
    (pc = "exit" /\ report = "classified")
        => /\ \A i \in 1..Len(Precedence) :
                category = Precedence[i]
                    <=> /\ Matches(Precedence[i])
                        /\ \A j \in 1..(i - 1) : ~ Matches(Precedence[j])
           /\ category = "raw" <=> \A i \in 1..Len(Precedence) : ~ Matches(Precedence[i])
           /\ guidance <=> (category = "auth" /\ errAuthType = "key")

C14_Witness ==
    /\ pc = "exit" /\ report = "classified"
    /\ errMessage = <<"Timeout", "ECONNREFUSED">>
    /\ category = "refused"

\* C15 (as claimed): get(A) returns the not-found sentinel whenever A is not
\* in the store, in particular after remove(A); remove(A) of an alias that is
\* absent completes without an error of its own (the write of the file apart)
\* and leaves the store unchanged.
C15_AbsentAlias ==
    [][/\ (op'.fn = "get" /\ op'.name \notin DOMAIN cfg') => ret'.kind = "undefined"
       /\ (op'.fn = "remove" /\ ret'.kind = "void") => op'.name \notin DOMAIN cfg'
       /\ (op'.fn = "remove" /\ op'.name \notin DOMAIN cfg /\ ret'.err # "io")
            => (ret'.kind = "void" /\ cfg' = cfg)]_vars

\* C16: for an alias that is in the Config Store and has no entry in the
\* secret store, get returns the stored record with an empty passphrase and
\* raises nothing; remove of an alias without a secret-store entry raises
\* nothing either (only the write of the file can fail) and removes the entry.
C16_NoSecretIsNoError ==
    [][/\ (op'.fn = "get" /\ op'.name \in DOMAIN cfg' /\ op'.name \notin DOMAIN keychain')
            => /\ ret'.kind = "object"
               /\ ret'.rec.passphrase = NoPassword
               /\ ret'.rec.host = cfg'[op'.name].host
               /\ ret'.rec.user = cfg'[op'.name].user
       /\ (op'.fn = "remove" /\ op'.name \notin DOMAIN keychain)
            => \/ ret'.kind = "void" /\ op'.name \notin DOMAIN cfg'
               \/ ret'.kind = "threw" /\ ret'.err = "io" /\ cfg' = cfg]_vars

C16_Witness ==
    /\ op.fn = "get" /\ op.name \in DOMAIN cfg /\ op.name \notin DOMAIN keychain
    /\ ret.kind = "object"

\* the value the secret store holds for "<alias>:passphrase", empty if none
SecretOf(n) == IF n \in DOMAIN keychain THEN keychain[n] ELSE NoPassword

\* C17: for every entry with authType = key, the passphrase of the record get
\* returns is the value the secret store holds for the alias at that moment
\* (empty when it holds none), also when the entry on disk carries a
\* passphrase field of its own.
C17_PassphraseFromSecretStore ==
    (/\ op.fn = "get" /\ ret.kind = "object"
     /\ op.name \in DOMAIN cfg /\ cfg[op.name].authType = "key")
        => ret.rec.passphrase = SecretOf(op.name)

C17_Witness ==
    /\ op.fn = "get" /\ ret.kind = "object" /\ op.name \in DOMAIN cfg
    /\ cfg[op.name].authType = "key"
    /\ cfg[op.name].passphrase = "pp2"
    /\ ret.rec.passphrase = "pp1"

\* C18: in every state reachable through add and remove no entry of the
\* config file holds a passphrase; add changes the secret store at most under
\* its own alias, puts a supplied passphrase there when it completes, and
\* leaves the secret store alone when no passphrase is supplied.
C18_NoPassphraseOnDisk ==
    [][/\ \A n \in DOMAIN cfg' : cfg'[n].passphrase = NoPassword
       /\ op'.fn = "add"
            => /\ \A a \in (DOMAIN keychain \cup DOMAIN keychain') \ {op'.name} :
                     /\ a \in DOMAIN keychain /\ a \in DOMAIN keychain'
                     /\ keychain'[a] = keychain[a]
               /\ op'.obj.passphrase \in Passphrases /\ ret'.kind = "void"
                    => /\ op'.name \in DOMAIN keychain'
                       /\ keychain'[op'.name] = op'.obj.passphrase
               /\ op'.obj.passphrase \notin Passphrases => keychain' = keychain]_vars

C18_Witness ==
    /\ op.fn = "add" /\ ret.kind = "void" /\ op.obj.passphrase = "pp2"
    /\ keychain[op.name] = "pp2"
    /\ cfg[op.name].passphrase = NoPassword

\* C20: load returns an empty mapping and raises nothing when the config file
\* does not exist; on a file that does not parse it raises an error and
\* returns no mapping.
C20_LoadAbsentVsCorrupt ==
    op.fn = "load"
        => /\ file = "absent"
             => (ret.kind = "object" /\ ret.map = EmptyMap /\ ret.err = "none")
           /\ file = "corrupt" => (ret.kind = "threw" /\ ret.err # "none")

C20_Witness ==
    op.fn = "load" /\ file = "corrupt" /\ ret.kind = "threw"

C21_BackupBeforeDestructiveSave ==
    [][(file = "valid" /\ (cfg' # cfg \/ file' # "valid"))
          => (backup'.exists /\ backup'.map = cfg)]_vars

\* C22: save is an atomic full overwrite: wherever the process stops during
\* save, the config file holds the complete previous mapping or the complete
\* new mapping, never a truncated or mixed content; and save creates the
\* application directory when it is absent.
C22_AtomicOverwrite ==
    [][/\ \/ (file' = file /\ cfg' = cfg)
          \/ (file' = "valid" /\ cfg' = data)
       /\ (pc' = "s_done" /\ ret'.kind = "void") => dirExists']_vars

\* C23: every remote session opened by init, connect or remove is closed
\* (disposed) before the process exits, on every exit path: success, a
\* command that throws after the session connected, an interrupt.
C23_SessionsClosedAtExit ==
    pc = "exit" => (ssh # "open" /\ sshKey # "open")

\* C24: during init at most one remote session is open at any time: the
\* password session is opened first and once, it is closed before the key
\* login is tried, and once closed it is not used again: the steps after the
\* post-install check run with the password session disposed.
C24_OneSessionAtATime ==
    [][cmd = "init" =>
         /\ \A s \in connections' \ connections :
               /\ s.auth = "password" => (ssh = "none" /\ sshKey = "none")
               /\ s.auth = "key" => (ssh = "disposed" /\ ssh' = "disposed")
         /\ ~ (ssh' = "open" /\ sshKey' = "open")
         /\ pc' \in {"i_verify", "i_add"} => ssh' = "disposed"
         /\ (ssh = "disposed" /\ pc' # "idle") => ssh' = "disposed"]_vars

C24_Witness ==
    /\ cmd = "init" /\ pc = "i_add"
    /\ ssh = "disposed" /\ sshKey = "disposed"
    /\ \E s \in connections : s.auth = "key" /\ s.ok
    /\ \E s \in connections : s.auth = "password" /\ s.ok

\* what a command prints when it has done all it was asked to do, or when
\* the user declined
Successes == {"ok", "removed", "canceled"}

\* C25: the exit status is zero only on full success and non-zero on every
\* fatal error: every failing path of init, connect and remove (remove of
\* an unknown alias and failing init steps included) ends non-zero.
C25_ExitStatus ==
    pc = "exit" => (exitCode = 0 <=> report \in Successes)

\* the password session of this run connected
PasswordSessionOpened == \E s \in connections : s.auth = "password" /\ s.ok

\* C26: the failure init reports names the step that failed: the bootstrap
\* authentication failure only when the password session could not be
\* opened, the install failure only when both installer methods failed, the
\* verification failure only when the key login failed after an install, and
\* a failure after the verification (the store write) is not reported as an
\* authentication failure.
C26_FailureNamesStep ==
    InitExited =>
        /\ report = "setup_failed" => ~ PasswordSessionOpened
        /\ report = "install" => (result1 # "ok" /\ result2 # "ok")
        /\ report = "verify" =>
              /\ authorizedKeys[Account] > 0
              /\ \E s \in connections : s.auth = "key" /\ ~ s.ok
        /\ (exitCode # 0 /\ KeyLoginVerified) => report # "setup_failed"

\* C27: when the local key is absent and its generation fails, init exits
\* with a failure before any session is opened and before the password is
\* asked for; when the private key exists, init neither generates a key nor
\* touches the key files.
C27_KeyGenerationFirst ==
    [][/\ (cmd' = "init" /\ pc' = "exit" /\ report' = "keygen")
            => /\ exitCode' = 1
               /\ keyFiles0' = "none" /\ keyFiles' = "none"
               /\ connections' = {}
               /\ password' = NoPassword
       /\ (cmd = "init" /\ keyFiles # "none")
            => (keyFiles' = keyFiles /\ authorizedKeys' \in {authorizedKeys} \cup
                   {[authorizedKeys EXCEPT ![Account] = @ + 1]})
       /\ (cmd = "init" /\ pc = "i_key" /\ keyFiles = "none" /\ pc' # "exit")
            => keyFiles' = "pair"]_vars

C27_Witness ==
    InitExited /\ report = "keygen" /\ keyFiles0 = "none" /\ exitCode = 1

\* the calls of fn that rejected
Failed == {j \in 1..Len(calls) : ~ calls[j].ok}

\* C28: retryWithBackoff with a maximum of n >= 1 attempts calls the
\* operation at least once and at most n times, calls it again only after a
\* failed attempt, stops at the first successful attempt and returns that
\* attempt's result, and always terminates.
C28_BoundedAttempts ==
    /\ [](finalOptions.maxRetries >= 1 =>
            /\ Len(calls) <= finalOptions.maxRetries
            /\ \A j \in 1..(Len(calls) - 1) : ~ calls[j].ok
            /\ pc = "rb_done" => Len(calls) >= 1
            /\ (Len(calls) > 0 /\ calls[Len(calls)].ok)
                 => /\ pc = "rb_done"
                    /\ returned = [kind |-> "value", val |-> calls[Len(calls)].value])
    /\ <>(pc = "rb_done")

C28_Witness ==
    /\ pc = "rb_done"
    /\ finalOptions.maxRetries = 3
    /\ Len(calls) = 2 /\ calls[2].ok
    /\ returned.val = calls[2].value

\* C29: the wait before attempt k+1, after k >= 1 failed attempts, is
\* exactly initialDelay * 2^(k-1), and no wait follows the failure of the
\* last allowed attempt.
C29_DelayDoubles ==
    finalOptions.maxRetries >= 1 =>
        /\ \A k \in 1..Len(waits) :
              waits[k] = finalOptions.initialDelay * Pow(2, k - 1)
        /\ Len(waits) <= finalOptions.maxRetries - 1
        /\ Len(waits) <= Cardinality(Failed)
        /\ pc = "rb_wait" => Len(waits) = Len(calls) - 1
        /\ (pc = "rb_loop" /\ iter < finalOptions.maxRetries)
             => Len(waits) = Len(calls)
        /\ (pc = "rb_loop" /\ ~ (iter < finalOptions.maxRetries))
             => Len(waits) = Len(calls) - 1

C29_Witness ==
    /\ pc = "rb_done"
    /\ Len(calls) = 3 /\ Failed = {1, 2, 3}
    /\ waits = <<50, 100>>

\* C30: the result tells success from exhaustion: when some attempt
\* succeeded its success flag is true, and when every attempt failed it has
\* success = false and carries the error of the last attempt.
C30_ResultTellsSuccess ==
    (pc = "rb_done" /\ finalOptions.maxRetries >= 1) =>
        IF Failed # 1..Len(calls)
        THEN returned.val.success = "true"
        ELSE /\ returned.val.success = "false"
             /\ returned.val.error = calls[Len(calls)].err

\* the text is a decimal numeral: an optional minus sign, then digits only
IsInteger(t) ==
    LET d == IF Len(t) > 0 /\ t[1] = "-" THEN Tail(t) ELSE t
    IN Len(d) > 0 /\ \A j \in 1..Len(d) : d[j] \in {"0", "1", "3", "5", "6"}

\* the integers p with 1 <= p <= 65535, as numerals: up to five digits after
\* leading zeros, not all of them zero, and not beyond 65535 digit by digit
InRange(t) ==
    LET lead == CHOOSE k \in 0..Len(t) :
                   /\ \A j \in 1..k : t[j] = "0"
                   /\ k < Len(t) => t[k + 1] # "0"
        sig == SubSeq(t, lead + 1, Len(t))
        top == <<"6", "5", "5", "3", "5">>
        Rank(c) == CASE c = "0" -> 0 [] c = "1" -> 1 [] c = "3" -> 3
                     [] c = "5" -> 5 [] OTHER -> 6
    IN /\ t[1] # "-"
       /\ Len(sig) >= 1
       /\ Len(sig) <= 5
       /\ Len(sig) = 5 =>
            \A j \in 1..5 :
                (\A i \in 1..(j - 1) : sig[i] = top[i]) => Rank(sig[j]) <= Rank(top[j])

\* C31: for every integer p, validatePort(p) succeeds if and only if
\* 1 <= p <= 65535 (0 and 65536 fail, 1 and 65535 succeed), and the port
\* check of the init prompt accepts exactly the same values.
C31_PortRange ==
    (pc = "vp_done" /\ IsInteger(portText)) =>
        /\ valid = "true" <=> InRange(portText)
        /\ accepted = valid

C31_Witness ==
    /\ pc = "vp_done"
    /\ portText = <<"6", "5", "5", "3", "5">>
    /\ valid = "true" /\ accepted = "true"

\* the entry of alias b in a store, absent included
EntryOf(m, b) == IF b \in DOMAIN m THEN <<TRUE, m[b]>> ELSE <<FALSE>>

C33_SecretBeforeEntry ==
    [][/\ (/\ op'.fn = "add"
            /\ op'.obj.passphrase # NoPassword /\ op'.obj.passphrase # ""
            /\ (ret'.kind = "void" \/ EntryOf(cfg', op'.name) # EntryOf(cfg, op'.name)))
           => EntryOf(keychain', op'.name) = <<TRUE, op'.obj.passphrase>>
       /\ \A a \in StoreAliases :
             (a \in DOMAIN keychain /\ a \notin DOMAIN keychain') => a \notin DOMAIN cfg'
       /\ (op'.fn = "remove" /\ ret'.kind = "threw") => keychain' = keychain]_vars

\* an add that failed between its two writes: the keychain holds the
\* passphrase of web1 and the file has no entry of web1
C33_Witness ==
    /\ op.fn = "add" /\ op.name = "web1" /\ op.obj.passphrase = "pp2"
    /\ ret.kind = "threw" /\ ret.err = "io"
    /\ "web1" \notin DOMAIN cfg
    /\ EntryOf(keychain, "web1") = <<TRUE, "pp2">>

\* C34: a failed init leaves the Config Store exactly as it was before init
\* started: when the alias existed and the replacement was confirmed, a later
\* failure (conflict, key generation, password session, install or
\* verification) does not lose the record the alias had.
C34_FailedInitKeepsStore ==
    (InitExited /\ report \in InitStepFailures) => cfg = cfg0

\* C35: after add(A, fields), get(A) returns the passphrase supplied in that
\* add call and no passphrase when none was supplied, whatever happened to A
\* before: a passphrase of an earlier record of A is never returned.
C35_NoStalePassphrase ==
    [][(/\ op.fn = "add" /\ ret.kind = "void"
        /\ op'.fn = "get" /\ op'.name = op.name)
       => /\ ret'.kind = "object"
          /\ ret'.rec.passphrase = op.obj.passphrase]_vars

\* C38: init opens the password-authenticated session only when a complete
\* local key pair exists (the private key file and its .pub file): a missing
\* public key is found, and init fails, before any network activity.
C38_KeyPairBeforeNetwork ==
    [][(cmd = "init" /\ connections' # connections) => keyFiles = "pair"]_vars

\* C39: retryWithBackoff never throws: for every options value (omitted, a
\* maximum of 0 attempts, an options object that names the limit maxAttempts)
\* it terminates and returns the operation's result or a failure result.
C39_NeverThrows ==
    pc = "rb_done" => returned.kind = "value"

\* C40: remove on an existing alias always ends with the alias absent from
\* the Config Store, whatever the outcome of the optional remote key cleanup
\* (declined, session failed, public key unreadable, remote command failed);
\* when the cleanup is declined no network session is opened, and for an
\* unknown alias remove changes nothing and opens no session.  (A run in
\* which the store write itself fails ends as a crash and is left out.)
C40_RemoveEndsAbsent ==
    cmd = "remove" =>
        /\ (pc = "exit" /\ name \in DOMAIN cfg0 /\ report # "crash")
              => name \notin DOMAIN cfg
        /\ password = NoPassword => connections = {}
        /\ name \notin DOMAIN cfg0 => (cfg = cfg0 /\ connections = {})

\* no two aliases of the store have the same (host, user) pair
HostUserUniqueIn(c) ==
    \A a, b \in DOMAIN c : (c[a].host = c[b].host /\ c[a].user = c[b].user) => a = b

\* C36 (as claimed): when two CLI invocations run init concurrently, the
\* (host, user) uniqueness invariant holds under every interleaving (at most
\* one of two inits with different aliases and the same pair persists a
\* record), and an alias that another invocation created between init's
\* existence check and its store write is not overwritten by that write.
C36_ConcurrentInitUnique ==
    [][(\A p \in Procs : procs'[p].cmd \in {"none", "init"}) =>
         /\ HostUserUniqueIn(cfg')
         /\ \A p \in Procs :
              (/\ procs[p].call = "add"
               /\ procs[p].pc = "c_open" /\ procs'[p].pc = "c_write")
              => procs[p].name \notin DOMAIN cfg]_vars

\* C36 (amended): init persists a record only when its conflict check read a
\* store that parses and holds no record of the (host, user) pair, and it
\* goes on without a question only when its existence check read a store
\* without the alias (removeServer runs only after a confirmed question);
\* what another invocation writes after these reads is not looked at.
C36_ChecksReadTheStore ==
    [][\A p \in Procs :
         /\ (procs[p].pc = "c_conflict" /\ procs'[p].pc = "c_remote")
              => /\ file # "corrupt"
                 /\ findServerByHostUser(cfg, procs[p].host, procs[p].user) = NoAlias
         /\ (procs[p].pc = "idle" /\ procs'[p].cmd = "init" /\ procs'[p].pc = "c_conflict")
              => /\ file # "corrupt"
                 /\ ~ hasServer(cfg, procs'[p].name)
         /\ (procs'[p].cmd = "init" /\ procs'[p].call = "remove" /\ procs[p].call # "remove")
              => procs[p].pc = "c_confirm"
         /\ (procs'[p].cmd = "init" /\ procs'[p].call = "add" /\ procs[p].call # "add")
              => procs[p].pc = "c_remote"]_vars

\* an init that was refused because the other init, for another alias and
\* the same pair, had written its record
C36_Witness ==
    \E p, q \in Procs :
        /\ procs[p].cmd = "init" /\ procs[p].outcome = "conflict"
        /\ procs[q].cmd = "init" /\ procs[q].outcome = "done"
        /\ procs[p].name # procs[q].name
        /\ procs[p].user = procs[q].user
        /\ DOMAIN cfg = {procs[q].name}

\* both invocations are single store updates that returned, for two aliases
BothUpdated ==
    /\ \A p \in Procs : /\ procs[p].cmd \in {"add", "remove"}
                        /\ procs[p].pc = "exit" /\ procs[p].outcome = "done"
    /\ procs[1].name # procs[2].name

\* the store shows the update of invocation p
Reflected(p) ==
    IF procs[p].cmd = "add"
    THEN /\ procs[p].name \in DOMAIN cfg
         /\ cfg[procs[p].name].host = procs[p].host
         /\ cfg[procs[p].name].user = procs[p].user
    ELSE procs[p].name \notin DOMAIN cfg

\* C37 (as claimed): when two CLI invocations each complete a store update
\* (add or remove) for different aliases, the final Config Store reflects
\* both updates under every interleaving of their load and save steps.
C37_NoLostUpdate ==
    BothUpdated => \A p \in Procs : Reflected(p)

\* C37 (amended): the final Config Store is what the invocation that wrote
\* last saved: it reflects that update, and it reflects the other update
\* when the last writer loaded the store after the other invocation had
\* finished; a file that does not parse is left only by saves that
\* overlapped.
C37_LastWriterWins ==
    BothUpdated =>
        LET last == CHOOSE p \in Procs : \A q \in Procs : procs[q].stamp <= procs[p].stamp
            other == CHOOSE q \in Procs : q # last
        IN IF file = "valid"
           THEN /\ Reflected(last)
                /\ procs[last].fresh => Reflected(other)
           ELSE ~ procs[last].fresh

\* two adds that both returned, and the store holds only the later one
C37_Witness ==
    /\ BothUpdated
    /\ procs[1].cmd = "add" /\ procs[2].cmd = "add"
    /\ file = "valid"
    /\ procs[1].stamp < procs[2].stamp
    /\ DOMAIN cfg = {procs[2].name}

====
